---- MODULE Spec2Model ----
(***************************************************************************)
(* Model of the agent-monitor daemon (rust-daemon): the ClaudeCode adapter *)
(* (file watcher, process scanner, start/stop), the SQLite Storage layer   *)
(* (sessions and session_events tables) and the EventBus.                  *)
(*                                                                         *)
(* Encodings used throughout:                                              *)
(*  - Option<T>: None is <<>>, Some(x) is <<x>>.                           *)
(*  - A String built by format!/join is the sequence of its pieces.        *)
(*  - Times are milliseconds on the clock `now`.                           *)
(*  - A uuid is a string drawn fresh from Uuids (never a project path).    *)
(*  - estimated_cost is kept in millionths (cost * 10^6), which is exact   *)
(*    because both prices are whole numbers per million tokens.            *)
(***************************************************************************)
EXTENDS Integers, Sequences, FiniteSets, TLC

VARIABLES
    file,        \* history.jsonl: the sequence of lines written by the tool
    now,         \* chrono::Utc::now(), in milliseconds
    uuid,        \* number of uuids handed out by Uuid::new_v4()
    running,     \* ClaudeCodeAdapter.running
    stopTx,      \* ClaudeCodeAdapter.watcher_stop_tx is Some
    stopMsg,     \* a message sits in the stop channel
    fsEvents,    \* notify events waiting in the watcher's rx channel
    wpc,         \* file watcher task: position
    wq,          \* file watcher task: lines of the tail window still to process
    cur,         \* file watcher task: the event built for the current entry
    sessions,    \* ClaudeCodeAdapter.sessions: HashMap<String, Session>
    spc,         \* process scanner task: position
    stSessions,  \* Store: table sessions, a function of the primary key id
    stEvents,    \* Store: table session_events, rows in insertion order
    published,   \* EventBus: every event handed to publish, in order
    built,       \* history: <<line, event id>> for every event built
    stored,      \* history: lines whose insert_event returned Ok
    storeErrors, \* number of Store calls that returned Err so far
    lastOp,      \* the last Store call and its outcome
    chan,        \* broadcast channel: every value sent so far, in order
    rx,          \* broadcast channel: the receivers handed out by subscribe
    detector,    \* SessionAnalytics.exit_detector of one session
    breaker,     \* SessionAnalytics.circuit_breaker of one session
    limiter,     \* AnalyticsManager.rate_limiter
    calls,       \* history: the calls made on a component and what they returned
    webhooks,    \* WebhookManager.webhooks
    app,         \* tui.rs: App
    snap,        \* the status file on disk and the task writing it
    ipc,         \* api.rs: IpcServer, its listener and connections
    bridge,      \* terminit.rs: the bridge, its connections
    sse,         \* integrations.rs: IntegrationState.event_tx and the SSE streams
    guard,       \* adapters.rs: the lock of the session map and the tasks using it
    mgr,         \* analytics.rs: AnalyticsManager, its locks and its callers
    acc,         \* terminit.rs: the running flag and the accept loop
    view         \* tui.rs: the session the detail view was opened for, and
                 \* the session its events were last loaded for

vars == <<file, now, uuid, running, stopTx, stopMsg, fsEvents, wpc, wq,
          cur, sessions, spc, stSessions, stEvents, published, built,
          stored, storeErrors, lastOp, chan, rx, detector, breaker, limiter,
          calls, webhooks, app, snap, ipc, bridge, sse, guard, mgr, acc,
          view>>

\* the adapter, the Store and the log of publishes
adapterVars == <<file, now, uuid, running, stopTx, stopMsg, fsEvents, wpc, wq,
                 cur, sessions, spc, stSessions, stEvents, published, built,
                 stored, storeErrors, lastOp>>

\* a broadcast channel and its receivers
busVars == <<chan, rx>>

\* the analytics of one session and the global rate limiter
analyticsVars == <<detector, breaker, limiter, calls>>

\* the servers and the terminal interface around the Store and the Bus
serverVars == <<webhooks, app, snap, ipc, bridge, sse>>

\* tasks taken step by step, for what they hold while they wait
taskVars == <<guard, mgr, acc, view>>

----------------------------------------------------------------------------
(* Bounds of the model *)

MaxLines == 2      \* lines the tool writes to the file
MaxNow == 1        \* clock ticks
MaxUuid == 2       \* uuids handed out
MaxPending == 1    \* notify events waiting in the watcher's channel
MaxPublished == 2  \* events handed to the Bus
MaxStoreErrors == 1 \* Store calls that fail
MaxSent == 5       \* values sent on a broadcast channel
BusDepth == 2      \* values the EventBus channel retains (1000 in events.rs)
WsDepth == 2       \* values the update channel retains (100 in api.rs)
MaxCalls == 5      \* calls made on the exit detector
MaxLoops == 6      \* calls made on the circuit breaker
MaxLimiterCalls == 6 \* calls made on the rate limiter
MaxHours == 1      \* hours the rate limiter's clock passes
MaxCallsPerHour == 2 \* max_calls_per_hour the rate limiter is built with
MaxRows == 11      \* rows of session_events a REST request finds
MaxPerPage == 2    \* per_page, and page, of a REST request
MaxItems == 3      \* ids of the sessions, and of the events, the TUI is shown
MaxScroll == 2     \* App.event_scroll_offset
MaxWebhooks == 2   \* registrations in WebhookManager.webhooks
MaxTriggers == 2   \* calls of WebhookManager::trigger
MaxWrites == 3     \* writes of the status file begun
MaxTaskLines == 3  \* lines of a task list
MaxConns == 2      \* connections a socket server accepts
MaxRequests == 2   \* lines a client sends on one connection
MaxAcceptErrors == 1 \* times accept returns an error
MaxBroadcasts == 2 \* messages the bridge broadcasts
MaxClients == 1    \* connections the bridge accepts
MaxKeepAlives == 2 \* keep-alive comments one stream writes
MaxAwaited == 6    \* Store calls awaited under the session map lock
DocChunks == 2     \* write calls one status document takes

(* Program constants *)

TailWindow == 50
HistoryWindow == 1000
PriceInPerMTok == 3
PriceOutPerMTok == 15
MsPerSecond == 1000
ActiveWindowMs == 1800000

None == <<>>
Some(x) == <<x>>
IsSome(o) == o # <<>>
Get(o) == o[1]

Uuids == <<"u1", "u2", "u3", "u4", "u5", "u6">>

Range(s) == {s[i] : i \in 1..Len(s)}

----------------------------------------------------------------------------
(* Log lines: the JSON values the tool writes, one per line *)

NoMessage == None
NoUsage == None

\* a user prompt of a session file: string content, RFC 3339 timestamp
LineUser ==
    [cwd |-> Some("/p"), project |-> None, sessionId |-> Some("s"),
     type |-> Some("user"), timestamp |-> <<"str", 1>>, display |-> None,
     message |-> Some([role |-> Some("user"), content |-> <<"str", "hi">>,
                       usage |-> NoUsage, model |-> None])]

\* an assistant reply: block content with one tool_use, usage and model;
\* its timestamp is not an RFC 3339 string
LineAssistant ==
    [cwd |-> Some("/p"), project |-> None, sessionId |-> Some("s"),
     type |-> Some("assistant"), timestamp |-> <<"bad">>, display |-> None,
     message |-> Some([role |-> Some("assistant"),
                       content |-> <<"arr", << [type |-> "tool_use", name |-> Some("Bash"), body |-> "{}"],
                                               [type |-> "text", name |-> None, body |-> "ok"] >> >>,
                       usage |-> Some([input_tokens |-> Some(10), output_tokens |-> Some(20)]),
                       model |-> Some("m")])]

\* a history.jsonl line: project and display, Unix-millisecond timestamp
LineHistory ==
    [cwd |-> None, project |-> Some("/q"), sessionId |-> Some("t"),
     type |-> None, timestamp |-> <<"num", 1>>, display |-> Some("d"),
     message |-> NoMessage]

\* a file-history-snapshot entry, skipped by process_entry
LineSnapshot ==
    [cwd |-> Some("/p"), project |-> None, sessionId |-> Some("s"),
     type |-> Some("file-history-snapshot"), timestamp |-> <<"str", 1>>,
     display |-> None, message |-> NoMessage]

\* an entry with neither cwd nor project, skipped by process_entry
LineNoProject ==
    [cwd |-> None, project |-> None, sessionId |-> Some("s"),
     type |-> Some("user"), timestamp |-> <<"str", 1>>, display |-> Some("x"),
     message |-> NoMessage]

\* an entry of type user that carries no message, and so no message.role
LineTypeOnly ==
    [cwd |-> Some("/p"), project |-> None, sessionId |-> Some("s"),
     type |-> Some("user"), timestamp |-> <<"num", 1>>, display |-> None,
     message |-> NoMessage]

Lines == {LineUser, LineAssistant, LineHistory, LineSnapshot, LineNoProject,
          LineTypeOnly}

\* live processes that match the tool, as (cwd, pid)
ProcCwds == {"/p"}
PidOf(cwd) == IF cwd = "/p" THEN 11 ELSE 12
\* format!("proc_{}", pid)
ProcExternalId(cwd) == IF cwd = "/p" THEN "proc_11" ELSE "proc_12"

----------------------------------------------------------------------------
(* models.rs *)

\* Session::new: a fresh uuid, both timestamps now, every counter zero
NewSession(id, project_path, external_id, nowv) ==
    [id |-> id, agent_type |-> "claude_code", external_id |-> external_id,
     project_path |-> project_path, status |-> "active",
     started_at |-> nowv, last_activity_at |-> nowv, ended_at |-> None,
     duration_seconds |-> 0, message_count |-> 0, tool_call_count |-> 0,
     file_operations |-> 0, tokens_input |-> 0, tokens_output |-> 0,
     estimated_cost |-> 0, model_id |-> None, pid |-> None,
     current_task |-> None, progress |-> 0, metadata |-> None]

\* s.metadata.insert("source", ...)
WithSource(s, source) == [s EXCEPT !.metadata = Some(source)]

\* Session::update_activity
UpdateActivity(s, nowv) ==
    [s EXCEPT !.last_activity_at = nowv,
              !.duration_seconds = (nowv - s.started_at) \div MsPerSecond]

\* the DefaultHasher digest of the four hashed values, as the tuple of what
\* was fed to the hasher (content is fed only when it is Some)
StableId(session_id, timestamp, event_type, content) ==
    <<"evt", session_id, timestamp, event_type, content>>

\* SessionEvent::new_with_stable_id
NewWithStableId(session_id, event_type, timestamp, content) ==
    [id |-> StableId(session_id, timestamp, event_type, content),
     session_id |-> session_id, event_type |-> event_type,
     timestamp |-> timestamp, agent_type |-> "claude_code",
     content |-> content, working_directory |-> None, tool_name |-> None,
     file_path |-> None, tokens_input |-> None, tokens_output |-> None,
     error_message |-> None, raw_data |-> None]

----------------------------------------------------------------------------
(* adapters.rs: ClaudeCodeAdapter::process_entry, its pure parts *)

\* entry.get("cwd").or_else(|| entry.get("project")) ... unwrap_or("")
ProjectOf(e) ==
    IF IsSome(e.cwd) THEN Get(e.cwd)
    ELSE IF IsSome(e.project) THEN Get(e.project) ELSE ""

SessionIdOf(e) == IF IsSome(e.sessionId) THEN Get(e.sessionId) ELSE ""

MsgTypeOf(e) == IF IsSome(e.type) THEN Get(e.type) ELSE ""

\* the two early returns of process_entry
Skipped(e) == MsgTypeOf(e) = "file-history-snapshot" \/ ProjectOf(e) = ""

UsageOf(e) ==
    IF IsSome(e.message) THEN Get(e.message).usage ELSE None

InputTokens(e) ==
    IF IsSome(UsageOf(e)) THEN Get(UsageOf(e)).input_tokens ELSE None

OutputTokens(e) ==
    IF IsSome(UsageOf(e)) THEN Get(UsageOf(e)).output_tokens ELSE None

ContentBlocks(e) ==
    IF IsSome(e.message) /\ Get(e.message).content # <<>>
       /\ Get(e.message).content[1] = "arr"
    THEN Get(e.message).content[2] ELSE <<>>

\* number of tool_use blocks, counted only when type == "assistant"
ToolUses(e) ==
    IF MsgTypeOf(e) = "assistant"
    THEN Cardinality({i \in 1..Len(ContentBlocks(e)) :
                         ContentBlocks(e)[i].type = "tool_use"})
    ELSE 0

EstimatedCostMutant(tokens_input, tokens_output) ==
    tokens_input * PriceOutPerMTok + tokens_output * PriceInPerMTok

\* input_cost + output_cost, in millionths
EstimatedCost(tokens_input, tokens_output) ==
    tokens_input * PriceInPerMTok + tokens_output * PriceOutPerMTok

\* session.tokens_input += input, when the entry carries the field
AddTokens(total, tokens) ==
    IF IsSome(tokens) THEN total + Get(tokens) ELSE total

AddToolCallsMutant(count, e) == ToolUses(e)

\* session.tool_call_count += 1 for every tool_use block
AddToolCalls(count, e) == count + ToolUses(e)

\* the in-memory session after the entry was counted in
ApplyEntry(s, e, nowv) ==
    LET a == [UpdateActivity([s EXCEPT !.message_count = @ + 1], nowv)
                 EXCEPT !.status = "active"]
        ti == AddTokens(a.tokens_input, InputTokens(e))
        to == AddTokens(a.tokens_output, OutputTokens(e))
        model == IF IsSome(e.message) /\ ~IsSome(a.model_id)
                 THEN Get(e.message).model ELSE a.model_id
    IN  [a EXCEPT !.tokens_input = ti, !.tokens_output = to,
                  !.model_id = model,
                  !.estimated_cost = EstimatedCost(ti, to),
                  !.tool_call_count = AddToolCalls(@, e)]

RoleOfMutant(e) ==
    IF IsSome(e.message) /\ IsSome(Get(e.message).role)
    THEN Get(Get(e.message).role) ELSE ""

\* message.role, else the entry's type
RoleOf(e) ==
    IF IsSome(e.message) /\ IsSome(Get(e.message).role)
    THEN Get(Get(e.message).role) ELSE MsgTypeOf(e)

EventTypeOf(e) ==
    CASE RoleOf(e) = "user" -> "PromptReceived"
      [] RoleOf(e) = "assistant" -> "ResponseGenerated"
      [] OTHER -> "Custom"

\* an RFC 3339 string parses; anything else falls back to Utc::now()
EventTimestamp(e, nowv) ==
    IF e.timestamp # <<>> /\ e.timestamp[1] = "str" THEN e.timestamp[2] ELSE nowv

\* the text one content block contributes
BlockText(b) ==
    CASE b.type = "text" -> <<b.body>>
      [] b.type = "thinking" -> <<"[THINKING]\n", b.body>>
      [] b.type = "tool_use" ->
            <<"[TOOL: ", IF IsSome(b.name) THEN Get(b.name) ELSE "unknown",
              "]\n", b.body>>
      [] b.type = "tool_result" -> <<"[RESULT]\n", b.body>>
      [] OTHER -> <<>>

RECURSIVE Join(_, _)
Join(parts, sep) ==
    IF parts = <<>> THEN <<>>
    ELSE IF Len(parts) = 1 THEN Head(parts)
    ELSE Head(parts) \o <<sep>> \o Join(Tail(parts), sep)

TextParts(e) ==
    LET bs == ContentBlocks(e)
        RECURSIVE Parts(_)
        Parts(i) == IF i > Len(bs) THEN <<>>
                    ELSE IF BlockText(bs[i]) = <<>> THEN Parts(i + 1)
                    ELSE <<BlockText(bs[i])>> \o Parts(i + 1)
    IN  Parts(1)

\* message.content as a string, else the joined blocks, else entry.display
FullContent(e) ==
    LET fromMessage ==
            IF IsSome(e.message) /\ Get(e.message).content # <<>>
            THEN IF Get(e.message).content[1] = "str"
                 THEN Some(<<Get(e.message).content[2]>>)
                 ELSE IF TextParts(e) # <<>> THEN Some(Join(TextParts(e), "\n\n"))
                 ELSE None
            ELSE None
    IN  IF IsSome(fromMessage) THEN fromMessage
        ELSE IF IsSome(e.display) THEN Some(<<Get(e.display)>>) ELSE None

\* the name of the last tool_use block
ToolNameOf(e) ==
    LET bs == ContentBlocks(e)
        idx == {i \in 1..Len(bs) : bs[i].type = "tool_use"}
    IN  IF idx = {} THEN None
        ELSE LET last == CHOOSE i \in idx : \A j \in idx : j <= i
             IN  Some(IF IsSome(bs[last].name) THEN Get(bs[last].name) ELSE "unknown")

\* the event process_entry builds for an entry of session s
BuildEvent(s, e, nowv) ==
    [NewWithStableId(s.id, EventTypeOf(e), EventTimestamp(e, nowv), FullContent(e))
        EXCEPT !.working_directory = Some(ProjectOf(e)),
               !.tool_name = ToolNameOf(e),
               !.tokens_input = InputTokens(e),
               !.tokens_output = OutputTokens(e)]

----------------------------------------------------------------------------
(* storage.rs *)

\* the columns bound by upsert_session, plus the two defaulted ones
SessionRow(s, nowv) ==
    [id |-> s.id, agent_type |-> s.agent_type, external_id |-> s.external_id,
     project_path |-> s.project_path, status |-> s.status,
     started_at |-> s.started_at, last_activity_at |-> s.last_activity_at,
     ended_at |-> s.ended_at, duration_seconds |-> s.duration_seconds,
     message_count |-> s.message_count, tool_call_count |-> s.tool_call_count,
     file_operations |-> s.file_operations, tokens_input |-> s.tokens_input,
     tokens_output |-> s.tokens_output, estimated_cost |-> s.estimated_cost,
     model_id |-> s.model_id, pid |-> s.pid, current_task |-> s.current_task,
     progress |-> s.progress, metadata_json |-> s.metadata,
     created_at |-> nowv, updated_at |-> nowv]

UpdateRowMutant(row, s, nowv) ==
    [SessionRow(s, nowv) EXCEPT !.created_at = row.created_at]

\* ON CONFLICT(id) DO UPDATE SET ...: the columns the statement lists
UpdateRow(row, s, nowv) ==
    [row EXCEPT !.status = s.status,
                !.last_activity_at = s.last_activity_at,
                !.ended_at = s.ended_at,
                !.duration_seconds = s.duration_seconds,
                !.message_count = s.message_count,
                !.tool_call_count = s.tool_call_count,
                !.file_operations = s.file_operations,
                !.tokens_input = s.tokens_input,
                !.tokens_output = s.tokens_output,
                !.estimated_cost = s.estimated_cost,
                !.current_task = s.current_task,
                !.progress = s.progress,
                !.metadata_json = s.metadata,
                !.updated_at = nowv]

\* Storage::upsert_session on table tbl (a function of the primary key)
UpsertSession(tbl, s, nowv) ==
    IF s.id \in DOMAIN tbl
    THEN [tbl EXCEPT ![s.id] = UpdateRow(tbl[s.id], s, nowv)]
    ELSE tbl @@ (s.id :> SessionRow(s, nowv))

\* Storage::row_to_session: the Session a row reads back as
RowToSession(row) ==
    [id |-> row.id, agent_type |-> row.agent_type, external_id |-> row.external_id,
     project_path |-> row.project_path, status |-> row.status,
     started_at |-> row.started_at, last_activity_at |-> row.last_activity_at,
     ended_at |-> row.ended_at, duration_seconds |-> row.duration_seconds,
     message_count |-> row.message_count, tool_call_count |-> row.tool_call_count,
     file_operations |-> row.file_operations, tokens_input |-> row.tokens_input,
     tokens_output |-> row.tokens_output, estimated_cost |-> row.estimated_cost,
     model_id |-> row.model_id, pid |-> row.pid, current_task |-> row.current_task,
     progress |-> row.progress, metadata |-> row.metadata_json]

\* Storage::get_session
GetSession(tbl, id) ==
    IF id \in DOMAIN tbl THEN Some(RowToSession(tbl[id])) ELSE None

\* format!("{:?}", event.event_type).to_lowercase()
EventTypeColumn(event_type) ==
    CASE event_type = "PromptReceived" -> "promptreceived"
      [] event_type = "ResponseGenerated" -> "responsegenerated"
      [] event_type = "SessionStart" -> "sessionstart"
      [] event_type = "Error" -> "error"
      [] OTHER -> "custom"

\* the columns bound by insert_event, plus the defaulted created_at
EventRow(ev, nowv) ==
    [id |-> ev.id, session_id |-> ev.session_id,
     event_type |-> EventTypeColumn(ev.event_type), timestamp |-> ev.timestamp,
     agent_type |-> ev.agent_type, content |-> ev.content,
     working_directory |-> ev.working_directory, tool_name |-> ev.tool_name,
     file_path |-> ev.file_path, tokens_input |-> ev.tokens_input,
     tokens_output |-> ev.tokens_output, error_message |-> ev.error_message,
     raw_data_json |-> ev.raw_data, created_at |-> nowv]

InsertEventMutant(rows, ev, nowv) == Append(rows, EventRow(ev, nowv))

\* Storage::insert_event: INSERT OR IGNORE on the primary key id
InsertEvent(rows, ev, nowv) ==
    IF \E i \in 1..Len(rows) : rows[i].id = ev.id
    THEN rows
    ELSE Append(rows, EventRow(ev, nowv))

RowsWithId(rows, id) == {i \in 1..Len(rows) : rows[i].id = id}

----------------------------------------------------------------------------
(* integrations.rs: the REST handlers over the Store.  A response carries    *)
(* the fields of ApiResponse but meta; a summary the fields of the session   *)
(* or event that identify and order it.                                      *)

OverFetch == 10
SessionFetchLimit == 1000
RecentHours == 168

\* the n rows of S with the highest `at`, highest first
RECURSIVE TakeNewest(_, _)
TakeNewest(S, n) ==
    IF n = 0 \/ S = {} THEN <<>>
    ELSE LET x == CHOOSE y \in S : \A z \in S : z.at <= y.at
         IN  <<x.row>> \o TakeNewest(S \ {x}, n - 1)

\* row_to_event: the event type read back from its column
EventTypeOfColumn(column) ==
    CASE column = "promptreceived" -> "PromptReceived"
      [] column = "responsegenerated" -> "ResponseGenerated"
      [] column = "sessionstart" -> "SessionStart"
      [] column = "error" -> "Error"
      [] OTHER -> "Custom"

\* Storage::row_to_event
RowToEvent(row) ==
    [id |-> row.id, session_id |-> row.session_id,
     event_type |-> EventTypeOfColumn(row.event_type),
     timestamp |-> row.timestamp, agent_type |-> row.agent_type,
     content |-> row.content, working_directory |-> row.working_directory,
     tool_name |-> row.tool_name, file_path |-> row.file_path,
     tokens_input |-> row.tokens_input, tokens_output |-> row.tokens_output,
     error_message |-> row.error_message, raw_data |-> row.raw_data_json]

\* Storage::get_recent_events: ORDER BY timestamp DESC LIMIT ?
GetRecentEvents(rows, limit) ==
    LET newest == TakeNewest({[at |-> rows[i].timestamp, ord |-> i,
                               row |-> rows[i]] : i \in 1..Len(rows)}, limit)
    IN  [i \in 1..Len(newest) |-> RowToEvent(newest[i])]

SessionsNewest(tbl, keep, limit) ==
    LET newest == TakeNewest({[at |-> tbl[id].last_activity_at, ord |-> id,
                               row |-> tbl[id]] : id \in keep}, limit)
    IN  [i \in 1..Len(newest) |-> RowToSession(newest[i])]

\* Storage::get_active_sessions: WHERE status = 'active'
GetActiveSessions(tbl, limit) ==
    SessionsNewest(tbl, {id \in DOMAIN tbl : tbl[id].status = "active"}, limit)

\* Storage::get_recent_sessions: last_activity_at within the last hours
GetRecentSessions(tbl, hours, limit, nowv) ==
    SessionsNewest(tbl, {id \in DOMAIN tbl :
                            tbl[id].last_activity_at > nowv - hours * 3600000},
                   limit)

\* Iterator::filter(..).collect()
RECURSIVE FilterSeq(_, _)
FilterSeq(s, keep) ==
    IF s = <<>> THEN <<>>
    ELSE (IF Head(s).id \in keep THEN <<Head(s)>> ELSE <<>>)
             \o FilterSeq(Tail(s), keep)

\* EventSummary::from
EventSummaryOf(e) ==
    [id |-> e.id, session_id |-> e.session_id, event_type |-> e.event_type,
     timestamp |-> e.timestamp, has_content |-> IsSome(e.content),
     tool_name |-> e.tool_name]

\* SessionSummary::from
SessionSummaryOf(s) ==
    [id |-> s.id, agent_type |-> s.agent_type, status |-> s.status,
     project_path |-> s.project_path, last_activity_at |-> s.last_activity_at]

ApiSuccess(data) == [success |-> TRUE, data |-> Some(data), error |-> None]

ApiError(msg) == [success |-> FALSE, data |-> None, error |-> Some(msg)]

Min(a, b) == IF a < b THEN a ELSE b

TotalPagesMutant(total, per_page) == total \div per_page

\* (total + per_page - 1) / per_page
TotalPages(total, per_page) == (total + per_page - 1) \div per_page

\* total, total_pages, skip(start).take(per_page)
Paginate(filtered, page, per_page) ==
    LET total == Len(filtered)
        start == (page - 1) * per_page
    IN  [items |-> SubSeq(filtered, start + 1, Min(start + per_page, total)),
         total |-> total, page |-> page, per_page |-> per_page,
         total_pages |-> TotalPages(total, per_page)]

\* the same three lines on usize, for every page and per_page: a division
\* by zero panics in every build; an overflow panics where overflow checks
\* are compiled in and wraps where they are not, and (0 - 1) * per_page
\* wrapped is 2^64 - per_page, a start beyond every list
PaginateUsize(filtered, page, per_page, overflow_checks) ==
    IF per_page = 0 THEN [panic |-> TRUE, body |-> None]
    ELSE IF page = 0
    THEN IF overflow_checks THEN [panic |-> TRUE, body |-> None]
         ELSE [panic |-> FALSE,
               body |-> Some(ApiSuccess(
                            [items |-> <<>>, total |-> Len(filtered),
                             page |-> page, per_page |-> per_page,
                             total_pages |->
                                 TotalPages(Len(filtered), per_page)]))]
    ELSE [panic |-> FALSE,
          body |-> Some(ApiSuccess(Paginate(filtered, page, per_page)))]

\* the page returned when the Store call failed
EmptyPage(per_page) ==
    [items |-> <<>>, total |-> 0, page |-> 1, per_page |-> per_page,
     total_pages |-> 0]

\* the events that pass the filters of list_events_handler
EventPasses(e, params) ==
    /\ IsSome(params.session_id) => e.session_id = Get(params.session_id)
    /\ IsSome(params.event_type)
           => EventTypeColumn(e.event_type) = Get(params.event_type)
    /\ IsSome(params.since) => e.timestamp >= Get(params.since)
    /\ IsSome(params.until) => e.timestamp <= Get(params.until)

\* list_events_handler; ok is whether get_recent_events returned Ok
ListEventsHandler(rows, params, ok) ==
    IF ok
    THEN LET events == GetRecentEvents(rows, params.per_page * OverFetch)
             filtered == FilterSeq(events,
                             {events[i].id : i \in {j \in 1..Len(events) :
                                 EventPasses(events[j], params)}})
             page == Paginate(filtered, params.page, params.per_page)
         IN  ApiSuccess([page EXCEPT
                 !.items = [i \in 1..Len(page.items) |->
                               EventSummaryOf(page.items[i])]])
    ELSE ApiSuccess(EmptyPage(params.per_page))

\* the sessions that pass the filters of list_sessions_handler; project is
\* matched by str::contains, here on whole paths
SessionPasses(s, params) ==
    /\ IsSome(params.agent_type) => s.agent_type = Get(params.agent_type)
    /\ IsSome(params.status) => s.status = Get(params.status)
    /\ IsSome(params.project) => s.project_path = Get(params.project)

\* list_sessions_handler; ok is whether the Store call returned Ok
ListSessionsHandler(tbl, params, ok, nowv) ==
    IF ok
    THEN LET found == IF params.active_only
                      THEN GetActiveSessions(tbl, SessionFetchLimit)
                      ELSE GetRecentSessions(tbl, RecentHours,
                                             SessionFetchLimit, nowv)
             filtered == FilterSeq(found,
                             {found[i].id : i \in {j \in 1..Len(found) :
                                 SessionPasses(found[j], params)}})
             page == Paginate(filtered, params.page, params.per_page)
         IN  ApiSuccess([page EXCEPT
                 !.items = [i \in 1..Len(page.items) |->
                               SessionSummaryOf(page.items[i])]])
    ELSE ApiSuccess(EmptyPage(params.per_page))

\* get_session_handler; ok is whether get_session returned Ok
GetSessionHandler(tbl, session_id, ok) ==
    IF ok
    THEN IF IsSome(GetSession(tbl, session_id))
         THEN [status |-> 200,
               body |-> ApiSuccess(Get(GetSession(tbl, session_id)))]
         ELSE [status |-> 404, body |-> ApiError("Session not found")]
    ELSE [status |-> 500, body |-> ApiError("storage error")]

----------------------------------------------------------------------------
(* tokio::sync::broadcast as the daemon uses it: EventBus (events.rs) and  *)
(* the update channel of the web server (api.rs).  A value is its position *)
(* in the sequence of values sent; the channel retains the last BusDepth.  *)

Receivers == {"r1", "r2"}

\* a receiver nobody has asked for yet
NoReceiver ==
    [state |-> "none", start |-> 0, next |-> 0, got |-> <<>>, lags |-> 0,
     missed |-> 0, reason |-> ""]

\* position of the oldest value the channel still retains
ChanOldestMutant(log, depth) == 1

ChanOldest(log, depth) ==
    IF Len(log) > depth THEN Len(log) - depth + 1 ELSE 1

\* Sender::subscribe: the receiver starts behind the last value sent
SubscribeAtMutant(log) == 1

SubscribeAt(log) == Len(log) + 1

\* Sender::send; with no receiver the value is handed back and not kept
ChanSend(log, msg, receivers) ==
    IF receivers = 0 THEN log ELSE Append(log, msg)

\* Receiver::recv for a receiver at position next: nothing to take yet,
\* Err(Lagged(n)) and a jump to the oldest retained value, or Ok(value)
ChanRecv(log, depth, next) ==
    IF next > Len(log)
    THEN [kind |-> "empty", value |-> 0, next |-> next]
    ELSE IF next < ChanOldest(log, depth)
    THEN [kind |-> "lagged", value |-> ChanOldest(log, depth) - next,
          next |-> ChanOldest(log, depth)]
    ELSE [kind |-> "ok", value |-> log[next], next |-> next + 1]

----------------------------------------------------------------------------
(* analytics.rs: text.  A content string is the sequence of its lines, a   *)
(* line the sequence of its pieces (words, word stems and punctuation,     *)
(* blanks left out); a pattern is a sequence of pieces and matches where   *)
(* it is an infix of a line.  "" is <<>>.                                  *)

\* char::to_lowercase on the pieces that carry an upper-case letter
LowerOf(piece) ==
    CASE piece = "All" -> "all"
      [] piece = "Running" -> "running"
      [] piece = "Implement" -> "implement"
      [] piece = "Ready" -> "ready"
      [] piece = "Error" -> "error"
      [] piece = "ERROR" -> "error"
      [] piece = "Connection" -> "connection"
      [] piece = "Refused" -> "refused"
      [] OTHER -> piece

\* str::to_lowercase
ToLowercase(content) ==
    [l \in 1..Len(content) |->
        [i \in 1..Len(content[l]) |-> LowerOf(content[l][i])]]

IsInfix(p, s) ==
    \E i \in 0..(Len(s) - Len(p)) : SubSeq(s, i + 1, i + Len(p)) = p

\* str::contains for a pattern without line break
Contains(content, p) ==
    \E l \in 1..Len(content) : IsInfix(p, content[l])

DONE_PATTERNS ==
    { <<"all", "tasks", "completed">>, <<"all", "tasks", "complete">>,
      <<"implement", "ation", "complete">>, <<"feature", "complete">>,
      <<"work", "complete">>, <<"all", "done">>,
      <<"everything", "is", "done">>, <<"finished", "implement", "ing">>,
      <<"successfully", "completed">>,
      <<"task", "completed", "successfully">>, <<"no", "more", "tasks">>,
      <<"nothing", "left", "to", "do">> }

STRONG_COMPLETION_PATTERNS ==
    { <<"all", "requirements", "have", "been", "met">>,
      <<"the", "implement", "ation", "is", "complete">>,
      <<"all", "features", "are", "working">>, <<"tests", "are", "passing">>,
      <<"ready", "for", "review">>, <<"ready", "to", "merge">>,
      <<"pr", "ready">>, <<"pull", "request", "ready">> }

TEST_ONLY_PATTERNS ==
    { <<"running", "tests">>, <<"test", "passed">>, <<"tests", "passed">>,
      <<"all", "tests", "pass">>, <<"pytest">>, <<"cargo", "test">>,
      <<"npm", "test">>, <<"jest">>, <<"vitest">> }

PROGRESS_WORDS == { <<"implement">>, <<"fix">>, <<"add">>, <<"create">> }

ERROR_PATTERNS ==
    { <<"error", ":">>, <<"error", "!">>, <<"exception", ":">>,
      <<"exception", "!">>, <<"fatal", ":">>, <<"fatal", "!">>,
      <<"panic", ":">>, <<"failed", ":">>, <<"failure", ":">>,
      <<"traceback">>, <<"stack", "trace">> }

----------------------------------------------------------------------------
(* analytics.rs: ExitDetector *)

DoneThreshold == 2
TestSaturationThreshold == 3
CompletionThreshold == 2
MaxRecent == 20

\* ExitDetector::default
NewExitDetector ==
    [done_signal_count |-> 0, test_only_count |-> 0,
     completion_indicator_count |-> 0, recent_content |-> <<>>]

HasDoneSignal(content_lower) ==
    \E p \in DONE_PATTERNS : Contains(content_lower, p)

HasStrongCompletion(content_lower) ==
    \E p \in STRONG_COMPLETION_PATTERNS : Contains(content_lower, p)

IsTestOnly(content_lower) ==
    /\ \E p \in TEST_ONLY_PATTERNS : Contains(content_lower, p)
    /\ \A w \in PROGRESS_WORDS : ~Contains(content_lower, w)

\* recent_content.push(..), and remove(0) beyond max_recent
PushRecent(recent, content_lower) ==
    IF content_lower = <<>> THEN recent
    ELSE LET r == Append(recent, content_lower)
         IN  IF Len(r) > MaxRecent THEN Tail(r) ELSE r

DoneSignalCountMutant(d, content_lower) ==
    IF HasDoneSignal(content_lower) THEN d.done_signal_count + 1
    ELSE d.done_signal_count

\* done_signal_count after the done check
DoneSignalCount(d, content_lower) ==
    IF HasDoneSignal(content_lower) THEN d.done_signal_count + 1 ELSE 0

TestOnlyCountMutant(d, content_lower) ==
    IF IsTestOnly(content_lower) THEN d.test_only_count + 1
    ELSE d.test_only_count

\* test_only_count after the test-only check
TestOnlyCount(d, content_lower) ==
    IF IsTestOnly(content_lower) THEN d.test_only_count + 1
    ELSE IF content_lower # <<>> THEN 0 ELSE d.test_only_count

CountSignalsMutant(d, content_lower) ==
    [d EXCEPT
       !.recent_content = PushRecent(@, content_lower),
       !.done_signal_count = DoneSignalCount(d, content_lower),
       !.test_only_count =
           IF HasStrongCompletion(content_lower) THEN @
           ELSE TestOnlyCount(d, content_lower)]

\* the counters after the done, strong and test-only checks; the test-only
\* check is not reached when the strong check returns
CountSignals(d, content_lower) ==
    LET strong == HasStrongCompletion(content_lower)
    IN  [d EXCEPT
           !.recent_content = PushRecent(@, content_lower),
           !.done_signal_count = DoneSignalCount(d, content_lower),
           !.completion_indicator_count = IF strong THEN @ + 1 ELSE @,
           !.test_only_count =
               IF strong THEN @ ELSE TestOnlyCount(d, content_lower)]

ExitDecisionMutant(d, strong) ==
    IF d.done_signal_count >= DoneThreshold THEN Some("CompletionSignals")
    ELSE IF strong THEN Some("StrongCompletion")
    ELSE IF d.completion_indicator_count >= CompletionThreshold
    THEN Some("ProjectComplete")
    ELSE IF d.test_only_count >= TestSaturationThreshold
    THEN Some("TestSaturation")
    ELSE None

\* what analyze_event returns for the updated counters d
ExitDecision(d, strong) ==
    IF strong THEN Some("StrongCompletion")
    ELSE IF d.done_signal_count >= DoneThreshold THEN Some("CompletionSignals")
    ELSE IF d.completion_indicator_count >= CompletionThreshold
    THEN Some("ProjectComplete")
    ELSE IF d.test_only_count >= TestSaturationThreshold
    THEN Some("TestSaturation")
    ELSE None

\* ExitDetector::analyze_event on event.content (an Option)
AnalyzeEvent(d, content) ==
    LET content_lower == ToLowercase(IF IsSome(content) THEN Get(content) ELSE <<>>)
        d1 == CountSignals(d, content_lower)
    IN  [detector |-> d1,
         result |-> ExitDecision(d1, HasStrongCompletion(content_lower))]

\* ExitDetector::reset
ResetDetector(d) == NewExitDetector

----------------------------------------------------------------------------
(* analytics.rs: CircuitBreaker *)

NoProgressThreshold == 3
RepeatedErrorThreshold == 5
MaxHistory == 10
ProgressTokens == 1000

\* CircuitBreaker::default
NewCircuitBreaker ==
    [state |-> "Closed", loop_history |-> <<>>, no_progress_count |-> 0,
     repeated_error_count |-> 0, last_error_signature |-> None,
     opened_at |-> None, open_reason |-> None]

\* number of error patterns found in the content
ErrorsDetected(content_lower) ==
    Cardinality({p \in ERROR_PATTERNS : Contains(content_lower, p)})

\* the first line that holds an error pattern
ErrorSignature(content_lower) ==
    IF ErrorsDetected(content_lower) > 0
    THEN LET hits == {l \in 1..Len(content_lower) :
                         \E p \in ERROR_PATTERNS : IsInfix(p, content_lower[l])}
             first == CHOOSE l \in hits : \A m \in hits : l <= m
         IN  Some(content_lower[first])
    ELSE None

HadProgressMutant(files_changed, tokens_used) ==
    files_changed > 0 /\ tokens_used > ProgressTokens

HadProgress(files_changed, tokens_used) ==
    files_changed > 0 \/ tokens_used > ProgressTokens

\* str::len, counted in pieces
OutputLength(content) ==
    LET RECURSIVE Sum(_)
        Sum(i) == IF i = 0 THEN 0 ELSE Len(content[i]) + Sum(i - 1)
    IN  Sum(Len(content))

\* loop_history.push(result), and remove(0) beyond max_history
PushHistory(history, result) ==
    LET h == Append(history, result)
    IN  IF Len(h) > MaxHistory THEN Tail(h) ELSE h

RepeatedErrorsMutant(b, error_signature) ==
    IF IsSome(error_signature) THEN b.repeated_error_count + 1 ELSE 0

\* repeated_error_count after a call with this signature
RepeatedErrors(b, error_signature) ==
    IF IsSome(error_signature)
    THEN IF error_signature = b.last_error_signature
         THEN b.repeated_error_count + 1 ELSE 1
    ELSE 0

\* CircuitBreaker::open
Open(b, reason, nowv) ==
    [b EXCEPT !.state = "Open", !.opened_at = Some(nowv),
              !.open_reason = Some(reason)]

\* CircuitBreaker::record_result
RecordResult(b, content, files_changed, tokens_used, nowv) ==
    LET content_lower == ToLowercase(content)
        error_signature == ErrorSignature(content_lower)
        had_progress == HadProgress(files_changed, tokens_used)
        result == [timestamp |-> nowv, files_changed |-> files_changed,
                   errors_detected |-> ErrorsDetected(content_lower),
                   output_length |-> OutputLength(content),
                   tokens_used |-> tokens_used, had_progress |-> had_progress]
        b1 == [b EXCEPT
                 !.loop_history = PushHistory(@, result),
                 !.no_progress_count = IF had_progress THEN 0 ELSE @ + 1,
                 !.repeated_error_count = RepeatedErrors(b, error_signature),
                 !.last_error_signature = error_signature]
    IN  IF b1.no_progress_count >= NoProgressThreshold
        THEN [breaker |-> Open(b1, "No progress detected for {} consecutive loops", nowv),
              result |-> TRUE]
        ELSE IF b1.repeated_error_count >= RepeatedErrorThreshold
        THEN [breaker |-> Open(b1, "Same error repeated {} times", nowv),
              result |-> TRUE]
        ELSE [breaker |-> b1, result |-> FALSE]

ResetBreakerMutant(b) ==
    [b EXCEPT !.state = "Closed", !.no_progress_count = 0]

\* CircuitBreaker::reset
ResetBreaker(b) ==
    [b EXCEPT !.state = "Closed", !.no_progress_count = 0,
              !.repeated_error_count = 0, !.last_error_signature = None,
              !.opened_at = None, !.open_reason = None]

----------------------------------------------------------------------------
(* analytics.rs: RateLimiter *)

MsPerHour == 3600000

\* Utc::now().format("%Y%m%d%H"): one stamp per hour of the clock
HourStamp(nowv) == nowv \div MsPerHour

\* RateLimiter::new(max_calls_per_hour)
NewRateLimiter(max_calls_per_hour, nowv) ==
    [disabled |-> FALSE, calls_this_hour |-> 0,
     max_calls_per_hour |-> max_calls_per_hour,
     last_reset_hour |-> HourStamp(nowv), total_calls |-> 0,
     tokens_this_hour |-> 0, max_tokens_per_hour |-> None]

MaybeResetHourMutant(l, nowv) ==
    IF HourStamp(nowv) # l.last_reset_hour
    THEN [l EXCEPT !.last_reset_hour = HourStamp(nowv)]
    ELSE l

\* RateLimiter::maybe_reset_hour
MaybeResetHour(l, nowv) ==
    IF HourStamp(nowv) # l.last_reset_hour
    THEN [l EXCEPT !.calls_this_hour = 0, !.tokens_this_hour = 0,
                   !.last_reset_hour = HourStamp(nowv)]
    ELSE l

\* RateLimiter::can_make_call
CanMakeCall(l, nowv) ==
    IF l.disabled THEN [limiter |-> l, result |-> TRUE]
    ELSE LET l1 == MaybeResetHour(l, nowv)
         IN  [limiter |-> l1,
              result |-> l1.calls_this_hour < l1.max_calls_per_hour]

SetDisabledMutant(l, disabled) == l

\* RateLimiter::set_disabled
SetDisabled(l, disabled) == [l EXCEPT !.disabled = disabled]

\* RateLimiter::record_call
RecordCall(l, tokens, nowv) ==
    [MaybeResetHour(l, nowv) EXCEPT !.calls_this_hour = @ + 1,
                                    !.total_calls = @ + 1,
                                    !.tokens_this_hour = @ + tokens]

\* u32::saturating_sub
SaturatingSub(a, b) == IF a > b THEN a - b ELSE 0

\* RateLimiter::remaining_calls
RemainingCalls(l, nowv) ==
    LET l1 == MaybeResetHour(l, nowv)
    IN  [limiter |-> l1,
         result |-> SaturatingSub(l1.max_calls_per_hour, l1.calls_this_hour)]

----------------------------------------------------------------------------
(* tui.rs: App, the state of the terminal interface.  Sessions and events   *)
(* are kept by their ids; indices count from 0 as in the source.  The       *)
(* fields that only drive the drawing (tab_index, tick_count, the           *)
(* sparkline, the horizontal scroll, the expanded event) are left out.      *)
(* last is a history field: the list, the selected index and the scroll     *)
(* offset a refresh found, for the properties.                              *)

\* next_session: let visible_rows = 10
VisibleRows == 10

\* select_next_event: let visible_height = 15
VisibleHeight == 15

\* App::new
NewApp ==
    [sessions |-> <<>>, selected_index |-> 0, session_scroll_offset |-> 0,
     show_detail_view |-> FALSE, session_events |-> <<>>,
     event_scroll_offset |-> 0, selected_event_index |-> 0, last |-> None]

\* slice.get(index): the element at a 0-based index, if there is one
GetAt(s, index) == IF index < Len(s) THEN Some(s[index + 1]) ELSE None

\* iter().position(|x| x.id == id): the 0-based index of the first match
Position(s, id) ==
    IF \E i \in 1..Len(s) : s[i] = id
    THEN Some((CHOOSE i \in 1..Len(s) :
                   s[i] = id /\ \A j \in 1..(i - 1) : s[j] # id) - 1)
    ELSE None

\* App::refresh_data where get_active_sessions returned Ok(fetched)
RefreshData(a, fetched) ==
    LET selected_session_id == GetAt(a.sessions, a.selected_index)
        new_idx == IF selected_session_id = None THEN None
                   ELSE Position(fetched, selected_session_id[1])
        relocated == IF new_idx = None THEN a.selected_index ELSE new_idx[1]
    IN  [a EXCEPT !.sessions = fetched,
                  !.selected_index =
                      IF fetched # <<>> /\ relocated >= Len(fetched)
                      THEN Len(fetched) - 1 ELSE relocated,
                  !.last = Some([op |-> "refresh_data", list |-> a.sessions,
                                 selected |-> a.selected_index,
                                 offset |-> a.session_scroll_offset])]

\* App::refresh_events where get_session_events returned Ok(fetched)
RefreshEvents(a, fetched) ==
    LET selected_event_id == GetAt(a.session_events, a.selected_event_index)
        old_count == Len(a.session_events)
        new_count == Len(fetched)
        new_idx == IF selected_event_id = None THEN None
                   ELSE Position(fetched, selected_event_id[1])
        found == new_idx # None
        added == new_count - old_count
        shifted == selected_event_id # None /\ ~found /\ new_count > old_count
        index == IF found THEN new_idx[1]
                 ELSE IF shifted THEN a.selected_event_index + added
                 ELSE a.selected_event_index
        offset == IF found
                  THEN IF index < a.event_scroll_offset
                       THEN index ELSE a.event_scroll_offset
                  ELSE IF shifted THEN a.event_scroll_offset + added
                  ELSE a.event_scroll_offset
        last == Some([op |-> "refresh_events", list |-> a.session_events,
                      selected |-> a.selected_event_index,
                      offset |-> a.event_scroll_offset])
    IN  IF a.sessions # <<>> /\ a.selected_index < Len(a.sessions)
        THEN [a EXCEPT !.session_events = fetched,
                       !.selected_event_index =
                           IF index >= new_count
                           THEN SaturatingSub(new_count, 1) ELSE index,
                       !.event_scroll_offset = offset,
                       !.last = last]
        ELSE [a EXCEPT !.last = last]

\* App::toggle_detail_view where get_session_events returned Ok(fetched)
ToggleDetailView(a, fetched) ==
    IF a.show_detail_view
    THEN [a EXCEPT !.show_detail_view = FALSE, !.session_events = <<>>,
                   !.event_scroll_offset = 0, !.selected_event_index = 0,
                   !.last = None]
    ELSE IF a.sessions # <<>> /\ a.selected_index < Len(a.sessions)
    THEN [a EXCEPT !.show_detail_view = TRUE, !.session_events = fetched,
                   !.event_scroll_offset = 0, !.selected_event_index = 0,
                   !.last = None]
    ELSE [a EXCEPT !.last = None]

\* App::select_previous_event
SelectPreviousEvent(a) ==
    IF a.selected_event_index > 0
    THEN [a EXCEPT !.selected_event_index = @ - 1,
                   !.event_scroll_offset =
                       IF a.selected_event_index - 1 < @
                       THEN a.selected_event_index - 1 ELSE @,
                   !.last = None]
    ELSE [a EXCEPT !.last = None]

\* App::select_next_event
SelectNextEvent(a) ==
    IF a.session_events # <<>>
       /\ a.selected_event_index < Len(a.session_events) - 1
    THEN [a EXCEPT !.selected_event_index = @ + 1,
                   !.event_scroll_offset =
                       IF a.selected_event_index + 1 >= @ + VisibleHeight
                       THEN a.selected_event_index + 1 - VisibleHeight + 1
                       ELSE @,
                   !.last = None]
    ELSE [a EXCEPT !.last = None]

\* App::next_session
NextSession(a) ==
    IF a.sessions # <<>> /\ a.selected_index < Len(a.sessions) - 1
    THEN [a EXCEPT !.selected_index = @ + 1,
                   !.session_scroll_offset =
                       IF a.selected_index + 1 >= @ + VisibleRows
                       THEN a.selected_index + 1 - VisibleRows + 1 ELSE @,
                   !.last = None]
    ELSE [a EXCEPT !.last = None]

\* App::previous_session
PreviousSession(a) ==
    IF a.sessions # <<>> /\ a.selected_index > 0
    THEN [a EXCEPT !.selected_index = @ - 1,
                   !.session_scroll_offset =
                       IF a.selected_index - 1 < @
                       THEN a.selected_index - 1 ELSE @,
                   !.last = None]
    ELSE [a EXCEPT !.last = None]

----------------------------------------------------------------------------
(* integrations.rs: WebhookManager.  A WebhookConfig is kept by its id,     *)
(* url, events and enabled; secret and created_at only reach the payload.   *)
(* A delivery is the task trigger spawns for one registration: n is the     *)
(* number of the trigger that started it (history), to the registration,    *)
(* url and event_type what the task posts.                                  *)

\* Vec<String>::contains
VecContains(s, x) == \E i \in 1..Len(s) : s[i] = x

\* WebhookManager::register
Register(list, config) == Append(list, config)

\* WebhookManager::unregister: the list kept, and the value returned
RECURSIVE RetainOthers(_, _)
RetainOthers(list, id) ==
    IF list = <<>> THEN <<>>
    ELSE IF Head(list).id # id
    THEN <<Head(list)>> \o RetainOthers(Tail(list), id)
    ELSE RetainOthers(Tail(list), id)

Unregister(list, id) ==
    [list |-> RetainOthers(list, id),
     result |-> Len(RetainOthers(list, id)) < Len(list)]

\* WebhookManager::trigger: the two conditions that end in continue
NotRoutedMutant(webhook, event_type) == ~webhook.enabled

NotRouted(webhook, event_type) ==
    \/ ~webhook.enabled
    \/ ~VecContains(webhook.events, event_type)
       /\ ~VecContains(webhook.events, "*")

\* WebhookManager::trigger: the tasks spawned, in the order of the list
RECURSIVE Trigger(_, _, _)
Trigger(list, event_type, n) ==
    IF list = <<>> THEN <<>>
    ELSE IF NotRouted(Head(list), event_type)
    THEN Trigger(Tail(list), event_type, n)
    ELSE <<[n |-> n, to |-> Head(list), url |-> Head(list).url,
            event_type |-> event_type]>>
         \o Trigger(Tail(list), event_type, n)

\* WebhookManager::new, with nothing triggered yet
NewWebhooks ==
    [list |-> <<>>, spawned |-> {}, posted |-> {}, triggers |-> 0,
     removed |-> {}, last |-> None]

----------------------------------------------------------------------------
(* integrations.rs: StatusFileWriter, and analytics.rs: write_status_file.  *)
(* Both serialize the status and hand it to tokio::fs::write, which opens   *)
(* the path with create and truncate and then writes the bytes with as      *)
(* many write calls as it takes.  A document is a sequence of chunks, one   *)
(* per write call; a chunk names its document (the number of the write and  *)
(* the active_count serialized) and its place in it.                        *)

\* serde_json::to_string_pretty(&status), cut where the write calls end
Document(n, active_count) ==
    [k \in 1..DocChunks |-> [n |-> n, active_count |-> active_count, k |-> k]]

\* the bytes at the path parse as one whole status document
IsDocument(bytes) ==
    /\ Len(bytes) = DocChunks
    /\ bytes = Document(bytes[1].n, bytes[1].active_count)

\* no file at the path, no write begun
NewSnapshot ==
    [disk |-> None, pc |-> "idle", left |-> <<>>, writes |-> 0,
     good |-> FALSE, errors |-> 0]

\* OpenOptions::new().write(true).create(true).truncate(true).open(path)
CreateTruncate(s, json) ==
    [s EXCEPT !.disk = Some(<<>>), !.pc = "writing", !.left = json]

\* one write call of write_all
WriteChunk(s) ==
    [s EXCEPT !.disk = Some(@[1] \o <<Head(s.left)>>),
              !.left = Tail(@),
              !.pc = IF Tail(s.left) = <<>> THEN "idle" ELSE "writing",
              !.good = @ \/ Tail(s.left) = <<>>]

----------------------------------------------------------------------------
(* analytics.rs: ExitDetector::check_task_list_complete.  Here a text is    *)
(* the sequence of its characters, "\n" among them.                         *)

\* str::lines: the pieces between line feeds, without a last empty one
RECURSIVE SplitLines(_, _)
SplitLines(text, line) ==
    IF text = <<>> THEN IF line = <<>> THEN <<>> ELSE <<line>>
    ELSE IF Head(text) = "\n" THEN <<line>> \o SplitLines(Tail(text), <<>>)
    ELSE SplitLines(Tail(text), Append(line, Head(text)))

IsWhitespace(c) == c \in {" ", "\t"}

\* str::trim
RECURSIVE TrimStart(_)
TrimStart(s) ==
    IF s # <<>> /\ IsWhitespace(Head(s)) THEN TrimStart(Tail(s)) ELSE s

RECURSIVE TrimEnd(_)
TrimEnd(s) ==
    IF s # <<>> /\ IsWhitespace(s[Len(s)])
    THEN TrimEnd(SubSeq(s, 1, Len(s) - 1)) ELSE s

Trim(s) == TrimEnd(TrimStart(s))

\* str::starts_with
StartsWith(s, p) == Len(p) <= Len(s) /\ SubSeq(s, 1, Len(p)) = p

\* the for loop of check_task_list_complete, with its break
RECURSIVE TaskListLoop(_, _, _)
TaskListLoop(lines, has_checkboxes, all_checked) ==
    IF lines = <<>>
    THEN [has_checkboxes |-> has_checkboxes, all_checked |-> all_checked]
    ELSE LET trimmed == Trim(Head(lines))
         IN  IF \/ StartsWith(trimmed, <<"-", " ", "[", " ", "]">>)
                \/ StartsWith(trimmed, <<"*", " ", "[", " ", "]">>)
             THEN [has_checkboxes |-> TRUE, all_checked |-> FALSE]
             ELSE IF \/ StartsWith(trimmed, <<"-", " ", "[", "x", "]">>)
                     \/ StartsWith(trimmed, <<"-", " ", "[", "X", "]">>)
                     \/ StartsWith(trimmed, <<"*", " ", "[", "x", "]">>)
                     \/ StartsWith(trimmed, <<"*", " ", "[", "X", "]">>)
             THEN TaskListLoop(Tail(lines), TRUE, all_checked)
             ELSE TaskListLoop(Tail(lines), has_checkboxes, all_checked)

\* ExitDetector::check_task_list_complete
CheckTaskListCompleteMutant(content) ==
    TaskListLoop(SplitLines(content, <<>>), FALSE, TRUE).has_checkboxes

CheckTaskListComplete(content) ==
    LET r == TaskListLoop(SplitLines(content, <<>>), FALSE, TRUE)
    IN  r.has_checkboxes /\ r.all_checked

----------------------------------------------------------------------------
(* api.rs: IpcServer and handle_client.  A line a client sends is kept as   *)
(* what serde_json makes of it: json says whether it parses, action is the  *)
(* "action" field if it is there and a string.  A response is the object    *)
(* written back, by its key; the rows in it are left out.                   *)

\* request.get("action").and_then(|v| v.as_str()).unwrap_or("")
ActionOf(request) == IF request.action = None THEN "" ELSE request.action[1]

\* handle_client: the match on action, where the Store call returned Ok
ResponseTo(action) ==
    CASE action = "get_sessions" -> [key |-> "sessions", error |-> None]
      [] action = "get_metrics" -> [key |-> "metrics", error |-> None]
      [] action = "get_events" -> [key |-> "events", error |-> None]
      [] OTHER -> [key |-> "error",
                   error |-> Some(<<"Unknown action: ", action>>)]

\* the actions that call the Store
CallsStore(action) == action \in {"get_sessions", "get_metrics", "get_events"}

\* a socket nobody has connected to
NoConnection ==
    [state |-> "none", inbox |-> <<>>, eof |-> FALSE, read |-> <<>>,
     out |-> <<>>, failure |-> None]

\* handle_client: one turn of the while loop on a line read from the
\* socket; ok is the outcome of the Store call, wok of write_all
HandleLine(conn, ok, wok) ==
    LET line == Head(conn.inbox)
        rest == [conn EXCEPT !.inbox = Tail(@), !.read = Append(@, line)]
    IN  IF ~line.json
        THEN [rest EXCEPT !.state = "closed", !.failure = Some("parse")]
        ELSE IF CallsStore(ActionOf(line)) /\ ~ok
        THEN [rest EXCEPT !.state = "closed", !.failure = Some("store")]
        ELSE IF ~wok
        THEN [rest EXCEPT !.state = "closed", !.failure = Some("write")]
        ELSE [rest EXCEPT !.out = Append(@, ResponseTo(ActionOf(line)))]

\* IpcServer::run after bind
NewIpc ==
    [listening |-> TRUE, accept_errors |-> 0,
     conns |-> [c \in 1..MaxConns |-> NoConnection]]

----------------------------------------------------------------------------
(* terminit.rs: handle_terminit_client and handle_message.  A line a client *)
(* sends is the BridgeMessage it parses to, or "malformed".  A message      *)
(* written is kept by its type; re is a history field, the number of the    *)
(* line it replies to, 0 for the first SessionsList and for broadcasts.     *)

\* handle_message: the reply, where ok is the outcome of the Store call
HandleMessage(message, ok) ==
    CASE message = "Ping" -> Some("Pong")
      [] message = "GetSessions" ->
             IF ok THEN Some("SessionsList") ELSE Some("Error")
      [] message = "Subscribe" -> None
      [] message = "Unsubscribe" -> None
      [] OTHER -> None

\* a socket nobody has connected to
NoBridgeClient ==
    [state |-> "none", inbox |-> <<>>, eof |-> FALSE, read |-> <<>>,
     outgoing |-> <<>>, out |-> <<>>, failure |-> None]

\* handle_terminit_client: "Send initial session list"
SendInitial(conn, ok, wok) ==
    IF ~ok THEN [conn EXCEPT !.state = "open"]
    ELSE IF ~wok THEN [conn EXCEPT !.state = "closed",
                                   !.failure = Some("write")]
    ELSE [conn EXCEPT !.state = "open",
                      !.out = Append(@, [kind |-> "SessionsList", re |-> 0])]

\* handle_terminit_client: the branch of select! that read a line
HandleBridgeLine(conn, ok, wok) ==
    LET line == Head(conn.inbox)
        rest == [conn EXCEPT !.inbox = Tail(@), !.read = Append(@, line)]
        response == IF line = "malformed" THEN None
                    ELSE HandleMessage(line, ok)
    IN  IF response = None THEN rest
        ELSE IF ~wok
        THEN [rest EXCEPT !.state = "closed", !.failure = Some("write")]
        ELSE [rest EXCEPT !.out = Append(@, [kind |-> response[1],
                                             re |-> Len(rest.read)])]

\* handle_terminit_client: the branch of select! that received a broadcast
ForwardOutgoing(conn, wok) ==
    LET rest == [conn EXCEPT !.outgoing = Tail(@)]
    IN  IF ~wok
        THEN [rest EXCEPT !.state = "closed", !.failure = Some("write")]
        ELSE [rest EXCEPT !.out = Append(@, [kind |-> Head(conn.outgoing),
                                             re |-> 0])]

\* TerminitBridge::start_socket_server after bind
NewBridge ==
    [sent |-> 0, accept_errors |-> 0,
     conns |-> [c \in 1..MaxClients |-> NoBridgeClient]]

----------------------------------------------------------------------------
(* integrations.rs: IntegrationState.event_tx and sse_handler.  event_tx is *)
(* a broadcast channel of its own, made in IntegrationState::new; the       *)
(* EventBus of events.rs is the channel chan.                               *)

\* IntegrationState::new: broadcast::channel(1000)
SseCapacity == 1000

\* IntegrationState::new, with no stream open
NewSse ==
    [event_tx |-> <<>>,
     clients |-> [c \in 1..MaxConns |->
                     [state |-> "none", next |-> 0, since |-> 0,
                      frames |-> <<>>, comments |-> 0, lags |-> 0]]]

\* sse_handler: state.event_tx.subscribe(); since is a history field, the
\* number of events the EventBus had published by then
SseSubscribe(s, c, bus) ==
    [s EXCEPT !.clients[c].state = "connected",
              !.clients[c].next = SubscribeAt(s.event_tx),
              !.clients[c].since = Len(bus)]

\* the stream is polled: an event of event_tx becomes an "event" frame, a
\* Lagged error is filtered out, and with nothing to take the keep-alive
\* writes its comment
SsePollStream(s, c) ==
    LET res == ChanRecv(s.event_tx, SseCapacity, s.clients[c].next)
    IN  IF res.kind = "ok"
        THEN [s EXCEPT !.clients[c].next = res.next,
                       !.clients[c].frames =
                           Append(@, [event |-> "event", data |-> res.value])]
        ELSE IF res.kind = "lagged"
        THEN [s EXCEPT !.clients[c].next = res.next,
                       !.clients[c].lags = @ + 1]
        ELSE [s EXCEPT !.clients[c].comments = @ + 1]

----------------------------------------------------------------------------
(* adapters.rs: the write lock of the session map, taken by process_entry   *)
(* (file watcher) and by the process scanner, with the Store calls they     *)
(* await as steps of their own.  keys are the keys of the map, saved the    *)
(* sessions upsert_session stored, awaited the Store calls awaited so far.  *)

GuardTasks == {"watcher", "scanner"}

\* ClaudeCodeAdapter::new: an empty map, no task at the lock
NewGuard ==
    [holder |-> "none",
     pc |-> [t \in GuardTasks |-> "idle"],
     key |-> [t \in GuardTasks |-> ""],
     keys |-> {}, saved |-> {}, events |-> 0, awaited |-> 0]

\* the positions at which a task is suspended in a Store call
InStoreCall(g, t) == g.pc[t] \in {"upsert_session", "insert_event"}

\* sessions.write().await returns the guard
AcquireWrite(g, t) == [g EXCEPT !.holder = t]

\* the guard goes out of scope
DropGuard(g, t) == [g EXCEPT !.holder = "none"]

EmptyMap == [k \in {} |-> k]

----------------------------------------------------------------------------
(* analytics.rs: AnalyticsManager, its two locks and its operations *)

MgrTasks == {"a", "b", "c"}
MgrSession == "s"
MaxMgrOps == 4

\* tokio::sync::RwLock: the writer or the readers holding it, and the queue
\* of tasks waiting in write().await or read().await, served in order
NewLock == [w |-> "none", r |-> {}, q |-> <<>>]

Enqueue(l, t, mode) == [l EXCEPT !.q = Append(@, <<t, mode>>)]

CanGrantMutant(l) == l.q # <<>>

\* the head of the queue gets the lock: a writer when nobody holds it, a
\* reader when no writer holds it
CanGrant(l) ==
    /\ l.q # <<>>
    /\ l.w = "none"
    /\ Head(l.q)[2] = "w" => l.r = {}

Grant(l) ==
    IF Head(l.q)[2] = "w"
    THEN [l EXCEPT !.w = Head(l.q)[1], !.q = Tail(@)]
    ELSE [l EXCEPT !.r = @ \cup {Head(l.q)[1]}, !.q = Tail(@)]

Holds(l, t) == l.w = t \/ t \in l.r

\* the guard is dropped
Release(l, t) ==
    [l EXCEPT !.w = IF @ = t THEN "none" ELSE @, !.r = @ \ {t}]

\* SessionAnalytics::new
NewSessionAnalytics ==
    [exit_detector |-> NewExitDetector, circuit_breaker |-> NewCircuitBreaker,
     loop_count |-> 0, files_changed_total |-> 0, errors_total |-> 0]

\* sessions.entry(id).or_insert_with(|| SessionAnalytics::new(id))
EntryOrInsert(m, id) ==
    IF id \in DOMAIN m THEN m ELSE m @@ (id :> NewSessionAnalytics)

\* the events process_event is called with: a reply that carries tokens, a
\* file modification and an error, all without content
MgrEvents ==
    { [event_type |-> "ResponseGenerated", tokens_input |-> Some(1),
       tokens_output |-> None, content |-> None],
      [event_type |-> "FileModified", tokens_input |-> None,
       tokens_output |-> None, content |-> None],
      [event_type |-> "Error", tokens_input |-> None,
       tokens_output |-> None, content |-> None] }

\* process_event: limiter.record_call(tokens_input + tokens_output)
ProcessEventLimiter(l, ev) ==
    IF IsSome(ev.tokens_input)
    THEN RecordCall(l, Get(ev.tokens_input)
                         + (IF IsSome(ev.tokens_output) THEN Get(ev.tokens_output) ELSE 0), 0)
    ELSE l

\* process_event: the exit detector and the two totals of the session
ProcessEventSessions(m, ev) ==
    LET m1 == EntryOrInsert(m, MgrSession)
        r == AnalyzeEvent(m1[MgrSession].exit_detector, ev.content)
    IN  [sessions |->
            [m1 EXCEPT ![MgrSession] =
                [@ EXCEPT !.exit_detector = r.detector,
                          !.files_changed_total =
                              IF ev.event_type = "FileModified" THEN @ + 1 ELSE @,
                          !.errors_total =
                              IF ev.event_type = "Error" THEN @ + 1 ELSE @]],
         result |-> r.result]

\* record_loop, called for a loop without output, changes or tokens
RecordLoop(m) ==
    LET m1 == EntryOrInsert(m, MgrSession)
        r == RecordResult(m1[MgrSession].circuit_breaker, <<>>, 0, 0, 0)
    IN  [sessions |->
            [m1 EXCEPT ![MgrSession] =
                [@ EXCEPT !.loop_count = @ + 1, !.circuit_breaker = r.breaker]],
         result |-> r.result]

\* reset_circuit_breaker
ResetCircuitBreaker(m) ==
    IF MgrSession \in DOMAIN m
    THEN [m EXCEPT ![MgrSession].circuit_breaker = ResetBreaker(@)]
    ELSE m

\* get_status: the per-session states, the limiter state and the count
GetStatus(m, l) ==
    [rate_limiter |-> l, sessions |-> m,
     active_session_count |-> Cardinality(DOMAIN m)]

\* AnalyticsManager::new, with no call in progress
NewMgr ==
    [sessions_lock |-> NewLock, limiter_lock |-> NewLock,
     sessions |-> EmptyMap,
     rate_limiter |-> NewRateLimiter(MaxCallsPerHour, 0),
     seq |-> [sessions |-> EmptyMap,
              rate_limiter |-> NewRateLimiter(MaxCallsPerHour, 0)],
     pc |-> [t \in MgrTasks |-> "idle"],
     arg |-> [t \in MgrTasks |-> None],
     want |-> [t \in MgrTasks |-> None],
     snap |-> [t \in MgrTasks |-> EmptyMap],
     seen |-> [t \in MgrTasks |-> {}],
     last |-> [t \in MgrTasks |-> [op |-> "none", ok |-> TRUE, seen |-> 0]],
     started |-> 0]

\* the pure call takes effect in the sequential order: the state it leaves
\* is one more state every get_status in progress may report
TakeEffect(m, s) ==
    [m EXCEPT !.seq = s,
              !.seen = [t \in MgrTasks |->
                           IF m.pc[t] \in {"gs_sessions", "gs_limiter", "gs_read"}
                           THEN m.seen[t] \cup {s} ELSE m.seen[t]]]

\* the task can take its next step: it holds the lock it asked for
Runnable(m, t) ==
    \/ m.pc[t] \in {"pe_sessions", "rl_sessions", "rs_sessions", "gs_sessions"}
          /\ Holds(m.sessions_lock, t)
    \/ m.pc[t] \in {"pe_limiter", "ce_limiter", "gs_limiter"}
          /\ Holds(m.limiter_lock, t)
    \/ m.pc[t] \in {"pe_detect", "gs_read"}

----------------------------------------------------------------------------
(* terminit.rs: TerminitBridge.running, the listener and the accept loop *)

\* TerminitBridge::new: running is false and no task is spawned; pending
\* counts the clients that connected and were not accepted yet
NewAcc ==
    [running |-> FALSE, stopped |-> FALSE, pc |-> "none", pending |-> 0,
     accepted |-> 0, served |-> 0, accept_errors |-> 0, after_stop |-> 0]

\* the top of the loop: if !*running.read().await { break; }
LoopCheck(a) ==
    [a EXCEPT !.pc = IF a.running THEN "accept" ELSE "done"]

\* listener.accept().await returned Ok: the client task is spawned
Accepted(a) ==
    [a EXCEPT !.pending = @ - 1, !.accepted = @ + 1, !.pc = "check",
              !.after_stop = IF a.stopped THEN @ + 1 ELSE @]

\* TerminitBridge::stop
StopBridge(a) == [a EXCEPT !.running = FALSE, !.stopped = TRUE]

----------------------------------------------------------------------------
(* State after construction: ClaudeCodeAdapter::new, an initialized and     *)
(* empty database, an EventBus nothing was published on                     *)

Init ==
    /\ file = <<>>
    /\ now = 0
    /\ uuid = 0
    /\ running = FALSE
    /\ stopTx = FALSE
    /\ stopMsg = FALSE
    /\ fsEvents = 0
    /\ wpc = "none"
    /\ wq = <<>>
    /\ cur = None
    /\ sessions = EmptyMap
    /\ spc = "none"
    /\ stSessions = EmptyMap
    /\ stEvents = <<>>
    /\ published = <<>>
    /\ built = {}
    /\ stored = {}
    /\ storeErrors = 0
    /\ lastOp = None
    /\ chan = <<>>
    /\ rx = [r \in Receivers |-> NoReceiver]
    /\ detector = NewExitDetector
    /\ breaker = NewCircuitBreaker
    /\ limiter = NewRateLimiter(MaxCallsPerHour, 0)
    /\ calls = <<>>
    /\ webhooks = NewWebhooks
    /\ app = NewApp
    /\ snap = NewSnapshot
    /\ ipc = NewIpc
    /\ bridge = NewBridge
    /\ sse = NewSse
    /\ guard = NewGuard
    /\ mgr = NewMgr
    /\ acc = NewAcc
    /\ view = [opened |-> None, events_of |-> None]

WatcherAlive == wpc \notin {"none", "stopped"}
ScannerAlive == spc \notin {"none", "done"}

\* process_entry keeps the write guard of the session map from its
\* sessions.write().await to its return
WatcherHoldsLock == wpc = "publish"

----------------------------------------------------------------------------
(* The environment: the observed tool, the filesystem notifier, the clock *)

\* the tool appends a line; the notifier reports a Modify event to a live watcher
AppendLine(l) ==
    /\ Len(file) < MaxLines
    /\ l \notin Range(file)
    /\ WatcherAlive => fsEvents < MaxPending
    /\ file' = Append(file, l)
    /\ fsEvents' = IF WatcherAlive THEN fsEvents + 1 ELSE fsEvents
    /\ UNCHANGED <<now, uuid, running, stopTx, stopMsg, wpc, wq, cur, sessions,
                   spc, stSessions, stEvents, published, built, stored,
                   storeErrors, lastOp,
                   busVars, analyticsVars, serverVars, taskVars>>

\* a Modify or Create event on the file whose content did not change
Touch ==
    /\ WatcherAlive
    /\ fsEvents < MaxPending
    /\ fsEvents' = fsEvents + 1
    /\ UNCHANGED <<file, now, uuid, running, stopTx, stopMsg, wpc, wq, cur,
                   sessions, spc, stSessions, stEvents, published, built,
                   stored, storeErrors, lastOp,
                   busVars, analyticsVars, serverVars, taskVars>>

Tick ==
    /\ now < MaxNow
    /\ now' = now + 1
    /\ UNCHANGED <<file, uuid, running, stopTx, stopMsg, fsEvents, wpc,
                   wq, cur, sessions, spc, stSessions, stEvents, published,
                   built, stored, storeErrors, lastOp,
                   busVars, analyticsVars, serverVars, taskVars>>

----------------------------------------------------------------------------
(* adapters.rs: the file watcher task *)

TailOf(lines, n) ==
    SubSeq(lines, Len(lines) - (IF Len(lines) > n THEN n ELSE Len(lines)) + 1,
           Len(lines))

\* select! takes a file event; handle_file_event and process_file_changes
\* read the file and keep its last 50 lines
WatcherFileEvent ==
    /\ wpc = "idle"
    /\ fsEvents > 0
    /\ Len(published) + Len(TailOf(file, TailWindow)) <= MaxPublished
    /\ fsEvents' = fsEvents - 1
    /\ wq' = TailOf(file, TailWindow)
    /\ wpc' = IF wq' = <<>> THEN "idle" ELSE "batch"
    /\ UNCHANGED <<file, now, uuid, running, stopTx, stopMsg, cur,
                   sessions, spc, stSessions, stEvents, published, built,
                   stored, storeErrors, lastOp,
                   busVars, analyticsVars, serverVars, taskVars>>

\* process_entry up to and including storage.insert_event(&event).await;
\* okUpsert and okInsert are the outcomes of the two Store calls (an Err is
\* logged and processing goes on)
WatcherEntry ==
    /\ wpc = "batch"
    /\ LET e == Head(wq) IN
       IF Skipped(e)
       THEN /\ wq' = Tail(wq)
            /\ wpc' = IF Tail(wq) = <<>> THEN "idle" ELSE "batch"
            /\ UNCHANGED <<uuid, cur, sessions, stSessions, stEvents, built, stored,
                           storeErrors>>
       ELSE \E okUpsert, okInsert \in BOOLEAN :
            LET project == ProjectOf(e)
                fresh == project \notin DOMAIN sessions
                s0 == IF fresh
                      THEN WithSource(NewSession(Uuids[uuid + 1], project,
                                                 SessionIdOf(e), now), "file_watch")
                      ELSE sessions[project]
                s1 == ApplyEntry(s0, e, now)
                ev == BuildEvent(s1, e, now)
                errs == (IF okUpsert THEN 0 ELSE 1) + (IF okInsert THEN 0 ELSE 1)
            IN  /\ fresh => uuid < MaxUuid
                /\ storeErrors + errs <= MaxStoreErrors
                /\ storeErrors' = storeErrors + errs
                /\ uuid' = IF fresh THEN uuid + 1 ELSE uuid
                /\ sessions' = IF fresh THEN sessions @@ (project :> s1)
                               ELSE [sessions EXCEPT ![project] = s1]
                /\ stSessions' = IF okUpsert THEN UpsertSession(stSessions, s1, now)
                                 ELSE stSessions
                /\ stEvents' = IF okInsert THEN InsertEvent(stEvents, ev, now)
                               ELSE stEvents
                /\ cur' = Some([line |-> e, event |-> ev])
                /\ built' = built \cup {<<e, ev.id>>}
                /\ stored' = IF okInsert THEN stored \cup {e} ELSE stored
                /\ wq' = wq
                /\ wpc' = "publish"
    /\ UNCHANGED <<file, now, running, stopTx, stopMsg, fsEvents, spc,
                   published, lastOp,
                   busVars, analyticsVars, serverVars, taskVars>>

\* EventBus::publish, as the broadcast channel's log of what was sent
Publish(log, entry) == Append(log, entry)

\* event_bus.publish(event) and the return of process_entry
WatcherPublish ==
    /\ wpc = "publish"
    /\ published' = Publish(published, Get(cur))
    /\ cur' = None
    /\ wq' = Tail(wq)
    /\ wpc' = IF Tail(wq) = <<>> THEN "idle" ELSE "batch"
    /\ UNCHANGED <<file, now, uuid, running, stopTx, stopMsg, fsEvents,
                   sessions, spc, stSessions, stEvents, built, stored,
                   storeErrors, lastOp,
                   busVars, analyticsVars, serverVars, taskVars>>

\* select! takes the stop message: break
WatcherStop ==
    /\ wpc = "idle"
    /\ stopMsg
    /\ stopMsg' = FALSE
    /\ wpc' = "stopped"
    /\ fsEvents' = 0
    /\ UNCHANGED <<file, now, uuid, running, stopTx, wq, cur, sessions,
                   spc, stSessions, stEvents, published, built, stored,
                   storeErrors, lastOp,
                   busVars, analyticsVars, serverVars, taskVars>>

----------------------------------------------------------------------------
(* adapters.rs: discovery, start, stop, the process scanner *)

RECURSIVE SetToSeq(_)
SetToSeq(S) ==
    IF S = {} THEN <<>>
    ELSE LET x == CHOOSE x \in S : TRUE IN <<x>> \o SetToSeq(S \ {x})

\* find_processes: one session per matching process with a non-empty cwd
ProcessSession(id, cwd, nowv, source) ==
    WithSource([NewSession(id, cwd, ProcExternalId(cwd), nowv)
                   EXCEPT !.pid = Some(PidOf(cwd))], source)

\* parse_history reads entry.timestamp as an RFC 3339 string or as Unix
\* milliseconds, else 0
TimestampMs(e) ==
    IF e.timestamp # <<>> /\ e.timestamp[1] \in {"str", "num"}
    THEN e.timestamp[2] ELSE 0

HistoryProjectOf(e) == IF IsSome(e.project) THEN Get(e.project) ELSE ""

HistoryProjects(lines) ==
    {HistoryProjectOf(lines[i]) : i \in 1..Len(lines)} \ {""}

\* parse_history: the session of one project over the last 1000 lines
HistorySession(id, project, lines, nowv) ==
    LET idx == {i \in 1..Len(lines) : HistoryProjectOf(lines[i]) = project}
        first == CHOOSE i \in idx : \A j \in idx : i <= j
        last == CHOOSE i \in idx : \A j \in idx : j <= i
        s == WithSource(NewSession(id, project, SessionIdOf(lines[first]), nowv),
                        "history")
    IN  [UpdateActivity(s, nowv) EXCEPT
            !.message_count = Cardinality(idx),
            !.status = IF TimestampMs(lines[last]) > 0
                          /\ nowv - TimestampMs(lines[last]) < ActiveWindowMs
                       THEN "active" ELSE "completed"]

RECURSIVE ProcessSessions(_, _, _, _)
ProcessSessions(cwds, nowv, firstUuid, source) ==
    IF cwds = <<>> THEN <<>>
    ELSE <<ProcessSession(Uuids[firstUuid + 1], Head(cwds), nowv, source)>>
         \o ProcessSessions(Tail(cwds), nowv, firstUuid + 1, source)

RECURSIVE HistorySessions(_, _, _, _)
HistorySessions(projects, lines, nowv, firstUuid) ==
    IF projects = <<>> THEN <<>>
    ELSE <<HistorySession(Uuids[firstUuid + 1], Head(projects), lines, nowv)>>
         \o HistorySessions(Tail(projects), lines, nowv, firstUuid + 1)

\* discover_sessions: processes first, then history, deduplicated by
\* project_path; procs are the cwds of the matching processes
DiscoverSessions(procs, lines, nowv, firstUuid) ==
    LET hist == HistoryProjects(TailOf(lines, HistoryWindow)) \ procs
    IN  ProcessSessions(SetToSeq(procs), nowv, firstUuid, "process")
        \o HistorySessions(SetToSeq(hist), TailOf(lines, HistoryWindow), nowv,
                           firstUuid + Cardinality(procs))

DiscoverCount(procs, lines) ==
    Cardinality(procs \cup HistoryProjects(TailOf(lines, HistoryWindow)))

RECURSIVE UpsertAll(_, _, _)
UpsertAll(tbl, ss, nowv) ==
    IF ss = <<>> THEN tbl
    ELSE UpsertAll(UpsertSession(tbl, Head(ss), nowv), Tail(ss), nowv)

\* the key start() files a discovered session under
StartKey(session) == session.id

RECURSIVE InsertAll(_, _)
InsertAll(map, ss) ==
    IF ss = <<>> THEN map
    ELSE LET s == Head(ss)
             m == IF StartKey(s) \in DOMAIN map
                  THEN [map EXCEPT ![StartKey(s)] = s]
                  ELSE map @@ (StartKey(s) :> s)
         IN  InsertAll(m, Tail(ss))

\* Adapter::start. procs is what the process inventory shows; the first
\* nOk upserts succeed, and when a later one fails start returns its error
\* before any task is spawned. A second start is taken only after the tasks
\* of the previous one have ended.
Start ==
    /\ ~running
    /\ ~WatcherAlive
    /\ ~ScannerAlive
    /\ \E procs \in SUBSET ProcCwds :
         LET found == DiscoverSessions(procs, file, now, uuid)
         IN  /\ uuid + DiscoverCount(procs, file) <= MaxUuid
             /\ \E nOk \in 0..Len(found) :
                  /\ nOk < Len(found) => storeErrors < MaxStoreErrors
                  /\ storeErrors' = IF nOk < Len(found) THEN storeErrors + 1
                                     ELSE storeErrors
                  /\ stSessions' = UpsertAll(stSessions, SubSeq(found, 1, nOk), now)
                  /\ sessions' = InsertAll(sessions, SubSeq(found, 1, nOk))
                  /\ uuid' = uuid + Len(found)
                  /\ IF nOk = Len(found)
                     THEN /\ stopTx' = TRUE
                          /\ stopMsg' = FALSE
                          /\ wpc' = "idle"
                          /\ spc' = "check"
                     ELSE UNCHANGED <<stopTx, stopMsg, wpc, spc>>
    /\ running' = TRUE
    /\ fsEvents' = 0
    /\ wq' = <<>>
    /\ cur' = None
    /\ UNCHANGED <<file, now, stEvents, published, built, stored, lastOp,
                   busVars, analyticsVars, serverVars, taskVars>>

\* Adapter::stop: running := false, one message to the watcher if a sender
\* is held (the send is lost when the receiver is gone)
Stop ==
    /\ running
    /\ running' = FALSE
    /\ stopTx' = FALSE
    /\ stopMsg' = IF stopTx /\ WatcherAlive THEN TRUE ELSE stopMsg
    /\ UNCHANGED <<file, now, uuid, fsEvents, wpc, wq, cur, sessions,
                   spc, stSessions, stEvents, published, built, stored,
                   storeErrors, lastOp,
                   busVars, analyticsVars, serverVars, taskVars>>

\* while *running.read().await
ScannerCheck ==
    /\ spc = "check"
    /\ spc' = IF running THEN "tick" ELSE "done"
    /\ UNCHANGED <<file, now, uuid, running, stopTx, stopMsg, fsEvents,
                   wpc, wq, cur, sessions, stSessions, stEvents,
                   published, built, stored, storeErrors, lastOp,
                   busVars, analyticsVars, serverVars, taskVars>>

RECURSIVE ScanInsertAll(_, _)
ScanInsertAll(map, ss) ==
    IF ss = <<>> THEN map
    ELSE ScanInsertAll(map @@ (Head(ss).project_path :> Head(ss)), Tail(ss))

\* interval.tick().await and one scan: every matching process whose cwd is
\* no key of the map gets a session, which is upserted (okCwds: the cwds
\* whose upsert succeeds) and filed under its cwd. Each process is handled
\* under the map's write lock.
ScannerScan ==
    /\ spc = "tick"
    /\ ~WatcherHoldsLock
    /\ \E procs \in SUBSET ProcCwds, okCwds \in SUBSET ProcCwds :
         LET new == procs \ DOMAIN sessions
             made == ProcessSessions(SetToSeq(new), now, uuid, "process_scan")
             saved == SelectSeq(made, LAMBDA s : s.project_path \in okCwds)
         IN  /\ okCwds \subseteq new
             /\ storeErrors + Cardinality(new \ okCwds) <= MaxStoreErrors
             /\ storeErrors' = storeErrors + Cardinality(new \ okCwds)
             /\ uuid + Cardinality(new) <= MaxUuid
             /\ uuid' = uuid + Cardinality(new)
             /\ stSessions' = UpsertAll(stSessions, saved, now)
             /\ sessions' = ScanInsertAll(sessions, made)
    /\ spc' = "check"
    /\ UNCHANGED <<file, now, running, stopTx, stopMsg, fsEvents, wpc,
                   wq, cur, stEvents, published, built, stored, lastOp,
                   busVars, analyticsVars, serverVars, taskVars>>

----------------------------------------------------------------------------
(* The daemon: adapter, watcher, scanner, Store and Bus together *)

Next ==
    \/ \E l \in Lines : AppendLine(l)
    \/ Touch
    \/ Tick
    \/ Start
    \/ Stop
    \/ WatcherFileEvent
    \/ WatcherEntry
    \/ WatcherPublish
    \/ WatcherStop
    \/ ScannerCheck
    \/ ScannerScan

Spec == Init /\ [][Next]_vars

----------------------------------------------------------------------------
(* The Store on its own: callers hand upsert_session and insert_event any   *)
(* of a few sessions and events, as the unit tests of a Store would.        *)
(* lastOp keeps the last call, its argument and whether it returned Ok.     *)

TestSessionA == WithSource(NewSession("u1", "/p", "s", 0), "file_watch")

\* the same session after an assistant entry: counters, tokens, cost, model
TestSessionB == ApplyEntry(TestSessionA, LineAssistant, 1)

\* the id of TestSessionA under other values of every other field
TestSessionC ==
    [TestSessionA EXCEPT !.agent_type = "cursor", !.external_id = "x",
                         !.project_path = "/other", !.started_at = 1,
                         !.status = "completed", !.message_count = 5,
                         !.pid = Some(7), !.model_id = Some("m9")]

TestSessionD == WithSource(NewSession("u2", "/q", "t", 0), "history")

TestSessions == {TestSessionA, TestSessionB, TestSessionC, TestSessionD}

TestEventA == BuildEvent(TestSessionA, LineUser, 0)

\* the id of TestEventA with another payload
TestEventA2 == [TestEventA EXCEPT !.tokens_input = Some(5),
                                  !.working_directory = Some("/elsewhere")]

TestEventB == BuildEvent(TestSessionA, LineAssistant, 0)

TestEvents == {TestEventA, TestEventA2, TestEventB}

UpsertOp(s, ok) == Some([op |-> "upsert_session", session |-> Some(s),
                         event |-> None, ok |-> ok])

InsertOp(ev, ok) == Some([op |-> "insert_event", session |-> None,
                          event |-> Some(ev), ok |-> ok])

StoreUpsert(s, ok) ==
    /\ ~ok => storeErrors < MaxStoreErrors
    /\ storeErrors' = IF ok THEN storeErrors ELSE storeErrors + 1
    /\ stSessions' = IF ok THEN UpsertSession(stSessions, s, now) ELSE stSessions
    /\ lastOp' = UpsertOp(s, ok)
    /\ UNCHANGED <<file, now, uuid, running, stopTx, stopMsg, fsEvents, wpc, wq,
                   cur, sessions, spc, stEvents, published, built, stored,
                   busVars, analyticsVars, serverVars, taskVars>>

StoreInsert(ev, ok) ==
    /\ ~ok => storeErrors < MaxStoreErrors
    /\ storeErrors' = IF ok THEN storeErrors ELSE storeErrors + 1
    /\ stEvents' = IF ok THEN InsertEvent(stEvents, ev, now) ELSE stEvents
    /\ lastOp' = InsertOp(ev, ok)
    /\ UNCHANGED <<file, now, uuid, running, stopTx, stopMsg, fsEvents, wpc, wq,
                   cur, sessions, spc, stSessions, published, built, stored,
                   busVars, analyticsVars, serverVars, taskVars>>

StoreNext ==
    \/ \E s \in TestSessions, ok \in BOOLEAN : StoreUpsert(s, ok)
    \/ \E ev \in TestEvents, ok \in BOOLEAN : StoreInsert(ev, ok)
    \/ Tick

SpecStore == Init /\ [][StoreNext]_vars

----------------------------------------------------------------------------
(* events.rs: the EventBus, a publisher and subscribers that keep          *)
(* receiving.  The bus holds a receiver of its own that is never read, so  *)
(* send always finds a receiver.                                           *)

\* EventBus::publish
BusPublish ==
    /\ Len(chan) < MaxSent
    /\ chan' = Publish(chan, Len(chan) + 1)
    /\ UNCHANGED <<rx, adapterVars, analyticsVars, serverVars, taskVars>>

\* EventBus::subscribe
BusSubscribe(r) ==
    /\ rx[r].state = "none"
    /\ rx' = [rx EXCEPT ![r] = [NoReceiver EXCEPT !.state = "active",
                                                  !.start = Len(chan) + 1,
                                                  !.next = SubscribeAt(chan)]]
    /\ UNCHANGED <<chan, adapterVars, analyticsVars, serverVars, taskVars>>

\* a subscriber's recv().await returns
BusRecv(r) ==
    /\ rx[r].state = "active"
    /\ LET res == ChanRecv(chan, BusDepth, rx[r].next) IN
       /\ res.kind # "empty"
       /\ rx' = [rx EXCEPT ![r] =
                   IF res.kind = "ok"
                   THEN [@ EXCEPT !.next = res.next, !.got = Append(@, res.value)]
                   ELSE [@ EXCEPT !.next = res.next, !.lags = @ + 1,
                                  !.missed = @ + res.value]]
    /\ UNCHANGED <<chan, adapterVars, analyticsVars, serverVars, taskVars>>

\* the subscriber drops its receiver
BusDrop(r) ==
    /\ rx[r].state = "active"
    /\ rx' = [rx EXCEPT ![r].state = "ended", ![r].reason = "dropped"]
    /\ UNCHANGED <<chan, adapterVars, analyticsVars, serverVars, taskVars>>

BusNext ==
    \/ BusPublish
    \/ \E r \in Receivers : BusSubscribe(r)
    \/ \E r \in Receivers : BusRecv(r)
    \/ \E r \in Receivers : BusDrop(r)

SpecBus == Init /\ [][BusNext]_vars

----------------------------------------------------------------------------
(* api.rs: the update channel of the web server, the periodic broadcaster  *)
(* and one handle_websocket task per connection                            *)

ActiveCount == Cardinality({r \in Receivers : rx[r].state = "active"})

\* the broadcaster's broadcast_tx.send(update), every 5 s
WsBroadcast ==
    /\ Len(chan) < MaxSent
    /\ chan' = ChanSend(chan, Len(chan) + 1, ActiveCount)
    /\ UNCHANGED <<rx, adapterVars, analyticsVars, serverVars, taskVars>>

\* handle_websocket: state.update_tx.subscribe()
WsConnect(h) ==
    /\ rx[h].state = "none"
    /\ rx' = [rx EXCEPT ![h] = [NoReceiver EXCEPT !.state = "active",
                                                  !.start = Len(chan) + 1,
                                                  !.next = SubscribeAt(chan)]]
    /\ UNCHANGED <<chan, adapterVars, analyticsVars, serverVars, taskVars>>

\* handle_websocket, the branch msg = rx.recv(): Ok(update) is sent to the
\* client and the loop goes on unless the send fails; Err(_) breaks the loop
WsForward(h) ==
    /\ rx[h].state = "active"
    /\ LET res == ChanRecv(chan, WsDepth, rx[h].next) IN
       /\ res.kind # "empty"
       /\ \E sendOk \in BOOLEAN :
            rx' = [rx EXCEPT ![h] =
                     IF res.kind = "ok" /\ sendOk
                     THEN [@ EXCEPT !.next = res.next, !.got = Append(@, res.value)]
                     ELSE IF res.kind = "ok"
                     THEN [@ EXCEPT !.next = res.next, !.state = "ended",
                                    !.reason = "send"]
                     ELSE [@ EXCEPT !.next = res.next, !.lags = @ + 1,
                                    !.missed = @ + res.value,
                                    !.state = "ended", !.reason = "lagged"]]
    /\ UNCHANGED <<chan, adapterVars, analyticsVars, serverVars, taskVars>>

\* handle_websocket, the branch msg = receiver.next(): the client closed
WsClientClose(h) ==
    /\ rx[h].state = "active"
    /\ rx' = [rx EXCEPT ![h].state = "ended", ![h].reason = "client"]
    /\ UNCHANGED <<chan, adapterVars, analyticsVars, serverVars, taskVars>>

WsNext ==
    \/ WsBroadcast
    \/ \E h \in Receivers : WsConnect(h)
    \/ \E h \in Receivers : WsForward(h)
    \/ \E h \in Receivers : WsClientClose(h)

SpecWs == Init /\ [][WsNext]_vars

----------------------------------------------------------------------------
(* The exit detector driven by a caller: analytics.rs, ExitDetector *)

\* "All tasks completed": a DONE pattern only
ContentDone == << <<"All", "tasks", "completed">> >>

\* "Implementation complete. Ready for review!": a DONE and a STRONG pattern
ContentStrong ==
    << <<"Implement", "ation", "complete", ".", "Ready", "for", "review", "!">> >>

\* "Running cargo test...": test-only
ContentTest == << <<"Running", "cargo", "test", "...">> >>

\* "Running tests to fix it": a TEST-ONLY pattern and a progress word
ContentTestFix == << <<"Running", "tests", "to", "fix", "it">> >>

\* "All done, all tests pass": a DONE pattern, and test-only
ContentDoneTest == << <<"All", "done", ",", "all", "tests", "pass">> >>

\* "cargo test: tests are passing": a STRONG pattern, and test-only
ContentStrongTest == << <<"cargo", "test", ":", "tests", "are", "passing">> >>

\* "working on it": no pattern
ContentPlain == << <<"working", "on", "it">> >>

\* "": content that is present and empty
ContentEmpty == <<>>

DetectorInputs ==
    {None} \cup {Some(c) : c \in {ContentEmpty, ContentDone, ContentStrong, ContentTest,
                                  ContentTestFix, ContentDoneTest,
                                  ContentStrongTest, ContentPlain}}

DetAnalyze(content) ==
    /\ Len(calls) < MaxCalls
    /\ LET r == AnalyzeEvent(detector, content)
       IN  /\ detector' = r.detector
           /\ calls' = Append(calls, [op |-> "analyze_event", input |-> content,
                                      result |-> r.result, before |-> detector])
    /\ UNCHANGED <<adapterVars, busVars, serverVars, taskVars, breaker, limiter>>

DetReset ==
    /\ Len(calls) < MaxCalls
    /\ detector' = ResetDetector(detector)
    /\ calls' = Append(calls, [op |-> "reset", input |-> None,
                               result |-> None, before |-> detector])
    /\ UNCHANGED <<adapterVars, busVars, serverVars, taskVars, breaker, limiter>>

DetNext ==
    \/ \E content \in DetectorInputs : DetAnalyze(content)
    \/ DetReset

SpecDetector == Init /\ [][DetNext]_vars

----------------------------------------------------------------------------
(* The circuit breaker driven by a caller: analytics.rs, CircuitBreaker *)

\* "nothing changed": no error pattern
OutputQuiet == << <<"nothing", "changed">> >>

\* "Error: Connection refused"
OutputErrorA == << <<"Error", ":", "Connection", "Refused">> >>

\* the same first error line after a line without error, and a second error
OutputErrorA2 ==
    << <<"building">>, <<"ERROR", ":", "connection", "refused">>,
       <<"fatal", ":", "stop">> >>

\* "panic: overflow": another error line
OutputErrorB == << <<"panic", ":", "overflow">> >>

LoopInputs ==
    { [content |-> OutputQuiet, files_changed |-> 0, tokens_used |-> 1000],
      [content |-> OutputQuiet, files_changed |-> 0, tokens_used |-> 1001],
      [content |-> OutputErrorA, files_changed |-> 1, tokens_used |-> 100],
      [content |-> OutputErrorA2, files_changed |-> 1, tokens_used |-> 100],
      [content |-> OutputErrorB, files_changed |-> 1, tokens_used |-> 100],
      [content |-> OutputErrorA, files_changed |-> 0, tokens_used |-> 100] }

BrRecord(input) ==
    /\ Len(calls) < MaxLoops
    /\ LET r == RecordResult(breaker, input.content, input.files_changed,
                             input.tokens_used, now)
       IN  /\ breaker' = r.breaker
           /\ calls' = Append(calls, [op |-> "record_result", input |-> input,
                                      result |-> r.result, before |-> breaker])
    /\ UNCHANGED <<adapterVars, busVars, serverVars, taskVars, detector, limiter>>

BrReset ==
    /\ Len(calls) < MaxLoops
    /\ breaker' = ResetBreaker(breaker)
    /\ calls' = Append(calls, [op |-> "reset", input |-> None,
                               result |-> FALSE, before |-> breaker])
    /\ UNCHANGED <<adapterVars, busVars, serverVars, taskVars, detector, limiter>>

BrNext ==
    \/ \E input \in LoopInputs : BrRecord(input)
    \/ BrReset

SpecBreaker == Init /\ [][BrNext]_vars

----------------------------------------------------------------------------
(* The rate limiter driven by a caller: analytics.rs, RateLimiter *)

TokenInputs == {1000}

\* Utc::now() moves on by half an hour
LimClock ==
    /\ now < MaxHours * MsPerHour
    /\ now' = now + (MsPerHour \div 2)
    /\ UNCHANGED <<file, uuid, running, stopTx, stopMsg, fsEvents, wpc, wq, cur,
                   sessions, spc, stSessions, stEvents, published, built,
                   stored, storeErrors, lastOp, busVars, analyticsVars, serverVars, taskVars>>

LimCall(op, input, r) ==
    /\ Len(calls) < MaxLimiterCalls
    /\ limiter' = r.limiter
    /\ calls' = Append(calls, [op |-> op, input |-> input, result |-> r.result,
                               before |-> limiter, at |-> now])
    /\ UNCHANGED <<adapterVars, busVars, serverVars, taskVars, detector, breaker>>

LimCanMakeCall == LimCall("can_make_call", None, CanMakeCall(limiter, now))

LimRecordCall(tokens) ==
    LimCall("record_call", Some(tokens),
            [limiter |-> RecordCall(limiter, tokens, now), result |-> None])

LimRemainingCalls ==
    LimCall("remaining_calls", None, RemainingCalls(limiter, now))

LimSetDisabled(disabled) ==
    LimCall("set_disabled", Some(disabled),
            [limiter |-> SetDisabled(limiter, disabled), result |-> None])

LimNext ==
    \/ LimClock
    \/ LimCanMakeCall
    \/ \E tokens \in TokenInputs : LimRecordCall(tokens)
    \/ LimRemainingCalls
    \/ \E disabled \in BOOLEAN : LimSetDisabled(disabled)

SpecLimiter == Init /\ [][LimNext]_vars

----------------------------------------------------------------------------
(* integrations.rs: REST requests against a Store that callers fill, first  *)
(* with sessions, then with events; the first events come from either of    *)
(* two sessions, the later ones from one.  Sessions are requested before    *)
(* the events arrive.  lastOp keeps the last request and its response.      *)

RestSessions == {TestSessionC, TestSessionD}

RestInsertEvent(session_id) ==
    /\ Len(stEvents) < MaxRows
    /\ Len(stEvents) >= 2 => session_id = "u1"
    /\ stEvents' = InsertEvent(stEvents,
                       NewWithStableId(session_id, "PromptReceived",
                                       Len(stEvents) + 1, None), now)
    /\ lastOp' = None
    /\ UNCHANGED <<file, now, uuid, running, stopTx, stopMsg, fsEvents, wpc, wq,
                   cur, sessions, spc, stSessions, published, built, stored,
                   storeErrors, busVars, analyticsVars, serverVars, taskVars>>

RestUpsertSession(s) ==
    /\ stEvents = <<>>
    /\ stSessions' = UpsertSession(stSessions, s, now)
    /\ lastOp' = None
    /\ UNCHANGED <<file, now, uuid, running, stopTx, stopMsg, fsEvents, wpc, wq,
                   cur, sessions, spc, stEvents, published, built, stored,
                   storeErrors, busVars, analyticsVars, serverVars, taskVars>>

EventsParams ==
    [page : 1..MaxPerPage, per_page : 1..MaxPerPage,
     session_id : {None, Some("u2")}, event_type : {None},
     since : {None}, until : {None}]

SessionsParams ==
    [page : 1..MaxPerPage, per_page : 1..MaxPerPage, agent_type : {None},
     status : {None}, project : {None}, active_only : BOOLEAN]

RestAnswer(op, request, ok, response) ==
    /\ lastOp' = Some([op |-> op, request |-> request, ok |-> ok,
                       response |-> response])
    /\ UNCHANGED <<file, now, uuid, running, stopTx, stopMsg, fsEvents, wpc, wq,
                   cur, sessions, spc, stSessions, stEvents, published, built,
                   stored, storeErrors, busVars, analyticsVars, serverVars, taskVars>>

RestListEvents(params, ok) ==
    RestAnswer("list_events", params, ok,
               ListEventsHandler(stEvents, params, ok))

RestListSessions(params, ok) ==
    /\ stEvents = <<>>
    /\ RestAnswer("list_sessions", params, ok,
               ListSessionsHandler(stSessions, params, ok, now))

RestGetSession(session_id, ok) ==
    /\ stEvents = <<>>
    /\ RestAnswer("get_session", session_id, ok,
               GetSessionHandler(stSessions, session_id, ok))

RestNext ==
    \/ \E session_id \in {"u1", "u2"} : RestInsertEvent(session_id)
    \/ \E s \in RestSessions : RestUpsertSession(s)
    \/ \E params \in EventsParams, ok \in BOOLEAN : RestListEvents(params, ok)
    \/ \E params \in SessionsParams, ok \in BOOLEAN :
           RestListSessions(params, ok)
    \/ \E session_id \in {"u1", "u3"}, ok \in BOOLEAN :
           RestGetSession(session_id, ok)

SpecRest == Init /\ [][RestNext]_vars

----------------------------------------------------------------------------
(* tui.rs: run_tui, the keys of the main view and of the events list and    *)
(* the two periodic refreshes.  What the Store returns to a refresh is any  *)
(* list of rows with distinct ids (id is the primary key of both tables).   *)

TuiIds == 1..MaxItems

FetchedLists ==
    {s \in UNION {[1..n -> TuiIds] : n \in 0..MaxItems} :
        \A i, j \in 1..Len(s) : s[i] = s[j] => i = j}

TuiStep(a) ==
    /\ app' = a
    /\ UNCHANGED <<adapterVars, busVars, analyticsVars, taskVars, webhooks, snap, ipc,
                   bridge, sse>>

\* KeyCode::Char('r'), and every 20th tick
TuiRefreshData(fetched) == TuiStep(RefreshData(app, fetched))

\* every 10th tick in the detail view
TuiRefreshEvents(fetched) ==
    /\ app.show_detail_view
    /\ RefreshEvents(app, fetched).event_scroll_offset <= MaxScroll
    /\ TuiStep(RefreshEvents(app, fetched))

\* KeyCode::Enter in the main view, KeyCode::Esc in the events list
TuiToggleDetailView(fetched) ==
    /\ app.show_detail_view => fetched = <<>>
    /\ TuiStep(ToggleDetailView(app, fetched))

\* KeyCode::Down and KeyCode::Up in the main view
TuiNextSession == ~app.show_detail_view /\ TuiStep(NextSession(app))
TuiPreviousSession == ~app.show_detail_view /\ TuiStep(PreviousSession(app))

\* KeyCode::Down and KeyCode::Up in the events list
TuiSelectNextEvent == app.show_detail_view /\ TuiStep(SelectNextEvent(app))
TuiSelectPreviousEvent ==
    app.show_detail_view /\ TuiStep(SelectPreviousEvent(app))

TuiNext ==
    \/ \E fetched \in FetchedLists : TuiRefreshData(fetched)
    \/ \E fetched \in FetchedLists : TuiRefreshEvents(fetched)
    \/ \E fetched \in FetchedLists : TuiToggleDetailView(fetched)
    \/ TuiNextSession
    \/ TuiPreviousSession
    \/ TuiSelectNextEvent
    \/ TuiSelectPreviousEvent

SpecTui == Init /\ [][TuiNext]_vars

----------------------------------------------------------------------------
(* integrations.rs: the callers of WebhookManager and the spawned tasks.    *)
(* spawned holds the tasks whose POST has not been sent yet, posted the     *)
(* requests that reached their url.  removed is a history field: the ids    *)
(* unregistered and not registered again, with the number of triggers made  *)
(* until then.  last keeps the last trigger.                                *)

WebhookIds == {"w1", "w2", "w3"}
WebhookEventTypes == {"session_start", "session_end"}

\* the registrations the callers make: one for session_start, one for "*",
\* one for two other event types, and a disabled one under a used id
WebhookConfigs ==
    {[id |-> "w1", url |-> "http://a", events |-> <<"session_start">>,
      enabled |-> TRUE],
     [id |-> "w2", url |-> "http://b", events |-> <<"*">>, enabled |-> TRUE],
     [id |-> "w3", url |-> "http://a", events |-> <<"error", "session_end">>,
      enabled |-> TRUE],
     [id |-> "w1", url |-> "http://b", events |-> <<"*">>,
      enabled |-> FALSE]}

WhStep(w) ==
    /\ webhooks' = w
    /\ UNCHANGED <<adapterVars, busVars, analyticsVars, taskVars, app, snap, ipc,
                   bridge, sse>>

\* register_webhook_handler
WhRegister(config) ==
    /\ Len(webhooks.list) < MaxWebhooks
    /\ WhStep([webhooks EXCEPT
                   !.list = Register(@, config),
                   !.removed = {r \in @ : r.id # config.id},
                   !.last = None])

\* delete_webhook_handler
WhUnregister(id) ==
    WhStep([webhooks EXCEPT
                !.list = Unregister(@, id).list,
                !.removed =
                    IF Unregister(webhooks.list, id).result
                    THEN @ \cup {[id |-> id, at |-> webhooks.triggers]}
                    ELSE @,
                !.last = None])

\* WebhookManager::trigger
WhTrigger(event_type) ==
    /\ webhooks.triggers < MaxTriggers
    /\ LET n == webhooks.triggers + 1
           started == Trigger(webhooks.list, event_type, n)
       IN  WhStep([webhooks EXCEPT
                       !.spawned = @ \cup {started[i] : i \in 1..Len(started)},
                       !.triggers = n,
                       !.last = Some([event_type |-> event_type,
                                      list |-> webhooks.list,
                                      started |-> started])])

\* a spawned task: client.post(url).send(), whose outcome is only logged
WhPost(d, ok) ==
    /\ d \in webhooks.spawned
    /\ WhStep([webhooks EXCEPT
                   !.spawned = @ \ {d},
                   !.posted = IF ok THEN @ \cup {d} ELSE @,
                   !.last = None])

WhNext ==
    \/ \E config \in WebhookConfigs : WhRegister(config)
    \/ \E id \in WebhookIds : WhUnregister(id)
    \/ \E event_type \in WebhookEventTypes : WhTrigger(event_type)
    \/ \E d \in webhooks.spawned, ok \in BOOLEAN : WhPost(d, ok)

SpecWebhooks == Init /\ [][WhNext]_vars

----------------------------------------------------------------------------
(* integrations.rs: start_periodic_updates, one write_status per tick of    *)
(* the interval, an error of which is logged before the next tick; and the  *)
(* ways a write ends early: a Store call fails before the file is touched,  *)
(* a write call fails, the process dies.  good is a history field: some     *)
(* write has completed.                                                     *)

SnapStep(s) ==
    /\ snap' = s
    /\ UNCHANGED <<adapterVars, busVars, analyticsVars, taskVars, webhooks, app, ipc,
                   bridge, sse>>

\* write_status up to tokio::fs::write opening the path
SnapBegin(active_count, ok) ==
    /\ snap.pc = "idle"
    /\ snap.writes < MaxWrites
    /\ IF ok
       THEN SnapStep(CreateTruncate([snap EXCEPT !.writes = @ + 1],
                         Document(snap.writes + 1, active_count)))
       ELSE SnapStep([snap EXCEPT !.writes = @ + 1, !.errors = @ + 1])

\* tokio::fs::write: the next write call returns Ok
SnapWrite ==
    /\ snap.pc = "writing"
    /\ SnapStep(WriteChunk(snap))

\* tokio::fs::write: the next write call returns Err (disk full, EIO)
SnapWriteFails ==
    /\ snap.pc = "writing"
    /\ SnapStep([snap EXCEPT !.pc = "idle", !.left = <<>>,
                             !.errors = @ + 1])

\* the process is killed, at any point
SnapCrash ==
    /\ snap.pc # "dead"
    /\ SnapStep([snap EXCEPT !.pc = "dead", !.left = <<>>])

SnapNext ==
    \/ \E active_count \in 0..MaxItems, ok \in BOOLEAN :
           SnapBegin(active_count, ok)
    \/ SnapWrite
    \/ SnapWriteFails
    \/ SnapCrash

SpecSnapshot == Init /\ [][SnapNext]_vars

----------------------------------------------------------------------------
(* analytics.rs: check_task_list_complete called once on a text of a few    *)
(* lines: list items with either bullet and any mark, indented or not, one  *)
(* with a label, and lines that only look like a checkbox.                  *)
(* calls keeps the lines the text was made of next to the text.             *)

TaskItems ==
    {indent \o <<bullet, " ", "[", mark, "]">> :
        indent \in {<<>>, <<" ">>}, bullet \in {"-", "*"},
        mark \in {" ", "x", "X"}}

TaskLines ==
    TaskItems \cup
    {<<>>, <<"t">>, <<" ", "-", " ", "[", "x", "]", " ", "t">>,
     <<"-", "[", "x", "]">>, <<"-", " ", "[", "y", "]">>,
     <<"+", " ", "[", " ", "]">>, <<"t", " ", "-", " ", "[", " ", "]">>}

TaskTexts == UNION {[1..n -> TaskLines] : n \in 0..MaxTaskLines}

\* the lines, each ended by a line feed
RECURSIVE JoinLines(_)
JoinLines(ls) ==
    IF ls = <<>> THEN <<>> ELSE Head(ls) \o <<"\n">> \o JoinLines(Tail(ls))

TaskCheck(ls) ==
    /\ calls = <<>>
    /\ calls' = <<[op |-> "check_task_list_complete",
                   input |-> [text |-> JoinLines(ls), lines |-> ls],
                   result |-> CheckTaskListComplete(JoinLines(ls)),
                   before |-> detector]>>
    /\ UNCHANGED <<adapterVars, busVars, serverVars, taskVars, detector, breaker,
                   limiter>>

TaskNext == \E ls \in TaskTexts : TaskCheck(ls)

SpecTaskList == Init /\ [][TaskNext]_vars

----------------------------------------------------------------------------
(* api.rs: the accept loop of IpcServer::run, one handle_client task per    *)
(* connection, and the clients: they connect, send lines and close.  read   *)
(* is a history field, the lines a task has taken from its socket.          *)

IpcLines ==
    {[json |-> TRUE, action |-> Some("get_sessions")],
     [json |-> TRUE, action |-> Some("get_metrics")],
     [json |-> TRUE, action |-> Some("get_events")],
     [json |-> TRUE, action |-> Some("restart")],
     [json |-> TRUE, action |-> None],
     [json |-> FALSE, action |-> None]}

IpcStep(i) ==
    /\ ipc' = i
    /\ UNCHANGED <<adapterVars, busVars, analyticsVars, taskVars, webhooks, app, snap,
                   bridge, sse>>

\* listener.accept() returns Ok: a task is spawned for the stream
IpcAccept(c) ==
    /\ ipc.listening
    /\ ipc.conns[c].state = "none"
    /\ IpcStep([ipc EXCEPT !.conns[c].state = "open"])

\* listener.accept() returns Err: logged, the loop goes on
IpcAcceptError ==
    /\ ipc.listening
    /\ ipc.accept_errors < MaxAcceptErrors
    /\ IpcStep([ipc EXCEPT !.accept_errors = @ + 1])

\* a client writes a line
IpcClientSend(c, line) ==
    /\ ipc.conns[c].state = "open"
    /\ ~ipc.conns[c].eof
    /\ Len(ipc.conns[c].inbox) + Len(ipc.conns[c].read) < MaxRequests
    /\ IpcStep([ipc EXCEPT !.conns[c].inbox = Append(@, line)])

\* a client closes its end
IpcClientClose(c) ==
    /\ ipc.conns[c].state = "open"
    /\ ~ipc.conns[c].eof
    /\ IpcStep([ipc EXCEPT !.conns[c].eof = TRUE])

\* handle_client: read_line returns a line
IpcHandle(c, ok, wok) ==
    /\ ipc.conns[c].state = "open"
    /\ ipc.conns[c].inbox # <<>>
    /\ IpcStep([ipc EXCEPT !.conns[c] = HandleLine(@, ok, wok)])

\* handle_client: read_line returns 0, the task ends with Ok
IpcHandleEof(c) ==
    /\ ipc.conns[c].state = "open"
    /\ ipc.conns[c].inbox = <<>>
    /\ ipc.conns[c].eof
    /\ IpcStep([ipc EXCEPT !.conns[c].state = "closed"])

IpcNext ==
    \/ \E c \in 1..MaxConns : IpcAccept(c)
    \/ IpcAcceptError
    \/ \E c \in 1..MaxConns, line \in IpcLines : IpcClientSend(c, line)
    \/ \E c \in 1..MaxConns : IpcClientClose(c)
    \/ \E c \in 1..MaxConns, ok \in BOOLEAN, wok \in BOOLEAN :
           IpcHandle(c, ok, wok)
    \/ \E c \in 1..MaxConns : IpcHandleEof(c)

SpecIpc == Init /\ [][IpcNext]_vars

----------------------------------------------------------------------------
(* terminit.rs: the accept loop of start_socket_server, one                 *)
(* handle_terminit_client task per connection, the broadcasts of the        *)
(* bridge and the clients.  outgoing is what the receiver subscribed at     *)
(* accept still holds for the task.                                         *)

BridgeLines ==
    {"Ping", "GetSessions", "Subscribe", "Unsubscribe", "Pong", "malformed"}

TbStep(b) ==
    /\ bridge' = b
    /\ UNCHANGED <<adapterVars, busVars, analyticsVars, taskVars, webhooks, app, snap,
                   ipc, sse>>

\* listener.accept() returns Ok: outgoing_tx.subscribe(), a task is spawned
TbAccept(c) ==
    /\ bridge.conns[c].state = "none"
    /\ TbStep([bridge EXCEPT !.conns[c].state = "accepted"])

\* listener.accept() returns Err
TbAcceptError ==
    /\ bridge.accept_errors < MaxAcceptErrors
    /\ TbStep([bridge EXCEPT !.accept_errors = @ + 1])

\* the task starts: get_active_sessions and the first write
TbSendInitial(c, ok, wok) ==
    /\ bridge.conns[c].state = "accepted"
    /\ TbStep([bridge EXCEPT !.conns[c] = SendInitial(@, ok, wok)])

\* broadcast_event, broadcast_session_update: outgoing_tx.send
TbBroadcast(kind) ==
    /\ bridge.sent < MaxBroadcasts
    /\ TbStep([bridge EXCEPT
                   !.sent = @ + 1,
                   !.conns = [c \in 1..MaxClients |->
                                 IF @[c].state \in {"accepted", "open"}
                                 THEN [@[c] EXCEPT
                                           !.outgoing = Append(@, kind)]
                                 ELSE @[c]]])

\* a client writes a line
TbClientSend(c, line) ==
    /\ bridge.conns[c].state \in {"accepted", "open"}
    /\ ~bridge.conns[c].eof
    /\ Len(bridge.conns[c].inbox) + Len(bridge.conns[c].read) < MaxRequests
    /\ TbStep([bridge EXCEPT !.conns[c].inbox = Append(@, line)])

\* a client closes its end
TbClientClose(c) ==
    /\ bridge.conns[c].state \in {"accepted", "open"}
    /\ ~bridge.conns[c].eof
    /\ TbStep([bridge EXCEPT !.conns[c].eof = TRUE])

\* select!: read_line returns a line
TbHandleLine(c, ok, wok) ==
    /\ bridge.conns[c].state = "open"
    /\ bridge.conns[c].inbox # <<>>
    /\ TbStep([bridge EXCEPT !.conns[c] = HandleBridgeLine(@, ok, wok)])

\* select!: read_line returns 0
TbHandleEof(c) ==
    /\ bridge.conns[c].state = "open"
    /\ bridge.conns[c].inbox = <<>>
    /\ bridge.conns[c].eof
    /\ TbStep([bridge EXCEPT !.conns[c].state = "closed"])

\* select!: outgoing_rx.recv() returns a message
TbForward(c, wok) ==
    /\ bridge.conns[c].state = "open"
    /\ bridge.conns[c].outgoing # <<>>
    /\ TbStep([bridge EXCEPT !.conns[c] = ForwardOutgoing(@, wok)])

TbNext ==
    \/ \E c \in 1..MaxClients : TbAccept(c)
    \/ TbAcceptError
    \/ \E c \in 1..MaxClients, ok \in BOOLEAN, wok \in BOOLEAN :
           TbSendInitial(c, ok, wok)
    \/ \E kind \in {"SessionUpdate", "EventNotification"} : TbBroadcast(kind)
    \/ \E c \in 1..MaxClients, line \in BridgeLines : TbClientSend(c, line)
    \/ \E c \in 1..MaxClients : TbClientClose(c)
    \/ \E c \in 1..MaxClients, ok \in BOOLEAN, wok \in BOOLEAN :
           TbHandleLine(c, ok, wok)
    \/ \E c \in 1..MaxClients : TbHandleEof(c)
    \/ \E c \in 1..MaxClients, wok \in BOOLEAN : TbForward(c, wok)

SpecBridge == Init /\ [][TbNext]_vars

----------------------------------------------------------------------------
(* integrations.rs: clients of GET /api/v1/stream next to an adapter that   *)
(* publishes on the EventBus.  No code sends on event_tx, so no action      *)
(* does.                                                                    *)

SseStep(s) ==
    /\ sse' = s
    /\ UNCHANGED <<adapterVars, busVars, analyticsVars, taskVars, webhooks, app, snap,
                   ipc, bridge>>

\* GET /api/v1/stream
SseConnect(c) ==
    /\ sse.clients[c].state = "none"
    /\ SseStep(SseSubscribe(sse, c, chan))

\* axum polls the stream of a connected client
SsePoll(c) ==
    /\ sse.clients[c].state = "connected"
    /\ sse.clients[c].comments < MaxKeepAlives
    /\ SseStep(SsePollStream(sse, c))

\* the client goes away
SseDisconnect(c) ==
    /\ sse.clients[c].state = "connected"
    /\ SseStep([sse EXCEPT !.clients[c].state = "gone"])

SseNext ==
    \/ BusPublish
    \/ \E c \in 1..MaxConns : SseConnect(c)
    \/ \E c \in 1..MaxConns : SsePoll(c)
    \/ \E c \in 1..MaxConns : SseDisconnect(c)

SpecSse == Init /\ [][SseNext]_vars

----------------------------------------------------------------------------
(* adapters.rs: process_entry and the loop body of the process scanner,     *)
(* from sessions.write().await to the end of the guard's scope.             *)

GuardStep(g) ==
    /\ guard' = g
    /\ UNCHANGED <<adapterVars, busVars, analyticsVars, serverVars, mgr, acc, view>>

\* process_entry reaches sessions.write().await for an entry of a project;
\* the scanner reaches it for the cwd of a matching process
GuardRequest(t, key) ==
    /\ guard.pc[t] = "idle"
    /\ guard.awaited < MaxAwaited
    /\ GuardStep([guard EXCEPT !.pc[t] = "write", !.key[t] = key])

\* process_entry: the guard is returned, the session is found or made and
\* updated, and storage.upsert_session(session) is called
WatcherAcquire ==
    /\ guard.pc["watcher"] = "write"
    /\ guard.holder = "none"
    /\ GuardStep([AcquireWrite(guard, "watcher") EXCEPT
                      !.keys = @ \cup {guard.key["watcher"]},
                      !.pc["watcher"] = "upsert_session",
                      !.awaited = @ + 1])

\* process_entry: upsert_session returns, the event is built and
\* storage.insert_event(&event) is called
WatcherUpserted(ok) ==
    /\ guard.pc["watcher"] = "upsert_session"
    /\ GuardStep([guard EXCEPT
                      !.saved = IF ok THEN @ \cup {guard.key["watcher"]}
                                ELSE @,
                      !.pc["watcher"] = "insert_event",
                      !.awaited = @ + 1])

\* process_entry: insert_event returns, the event is published and the
\* function returns
WatcherInserted(ok) ==
    /\ guard.pc["watcher"] = "insert_event"
    /\ GuardStep([DropGuard(guard, "watcher") EXCEPT
                      !.events = IF ok THEN @ + 1 ELSE @,
                      !.pc["watcher"] = "idle"])

\* scanner: the guard is returned; a cwd that is a key already ends the
\* block, for a new one storage.upsert_session(&session) is called
ScannerAcquire ==
    /\ guard.pc["scanner"] = "write"
    /\ guard.holder = "none"
    /\ IF guard.key["scanner"] \in guard.keys
       THEN GuardStep([guard EXCEPT !.pc["scanner"] = "idle"])
       ELSE GuardStep([AcquireWrite(guard, "scanner") EXCEPT
                           !.pc["scanner"] = "upsert_session",
                           !.awaited = @ + 1])

\* scanner: upsert_session returns, the session is put into the map and
\* the block ends
ScannerUpserted(ok) ==
    /\ guard.pc["scanner"] = "upsert_session"
    /\ GuardStep([DropGuard(guard, "scanner") EXCEPT
                      !.saved = IF ok THEN @ \cup {guard.key["scanner"]}
                                ELSE @,
                      !.keys = @ \cup {guard.key["scanner"]},
                      !.pc["scanner"] = "idle"])

GuardNext ==
    \/ \E t \in GuardTasks, key \in {"/p", "/q"} : GuardRequest(t, key)
    \/ WatcherAcquire
    \/ \E ok \in BOOLEAN : WatcherUpserted(ok)
    \/ \E ok \in BOOLEAN : WatcherInserted(ok)
    \/ ScannerAcquire
    \/ \E ok \in BOOLEAN : ScannerUpserted(ok)

SpecGuard == Init /\ [][GuardNext]_vars

----------------------------------------------------------------------------
----------------------------------------------------------------------------
(* analytics.rs: concurrent callers of AnalyticsManager. Every await of a   *)
(* lock is a point where a task waits; what a call does between two awaits  *)
(* is one step.                                                             *)

MgrStep(m) ==
    /\ mgr' = m
    /\ UNCHANGED <<adapterVars, busVars, analyticsVars, serverVars, guard, acc, view>>

\* process_event(event) reaches self.sessions.write().await
MgrProcessEvent(t, ev) ==
    /\ mgr.pc[t] = "idle"
    /\ mgr.started < MaxMgrOps
    /\ MgrStep([mgr EXCEPT !.pc[t] = "pe_sessions", !.arg[t] = Some(ev),
                           !.sessions_lock = Enqueue(@, t, "w"),
                           !.started = @ + 1])

\* record_loop, reset_circuit_breaker: self.sessions.write().await
MgrSessionsCall(t, pc) ==
    /\ mgr.pc[t] = "idle"
    /\ mgr.started < MaxMgrOps
    /\ MgrStep([mgr EXCEPT !.pc[t] = pc,
                           !.sessions_lock = Enqueue(@, t, "w"),
                           !.started = @ + 1])

\* can_execute: self.rate_limiter.write().await
MgrCanExecute(t) ==
    /\ mgr.pc[t] = "idle"
    /\ mgr.started < MaxMgrOps
    /\ MgrStep([mgr EXCEPT !.pc[t] = "ce_limiter",
                           !.limiter_lock = Enqueue(@, t, "w"),
                           !.started = @ + 1])

\* get_status: self.sessions.read().await
MgrGetStatus(t) ==
    /\ mgr.pc[t] = "idle"
    /\ mgr.started < MaxMgrOps
    /\ MgrStep([mgr EXCEPT !.pc[t] = "gs_sessions",
                           !.sessions_lock = Enqueue(@, t, "r"),
                           !.seen[t] = {mgr.seq},
                           !.started = @ + 1])

\* the RwLock hands itself to the task at the head of its queue
MgrGrantSessions ==
    /\ CanGrant(mgr.sessions_lock)
    /\ MgrStep([mgr EXCEPT !.sessions_lock = Grant(@)])

MgrGrantLimiter ==
    /\ CanGrant(mgr.limiter_lock)
    /\ MgrStep([mgr EXCEPT !.limiter_lock = Grant(@)])

\* process_event: the entry of the session; with tokens, it goes on to
\* self.rate_limiter.write().await with the session map still locked
PeEntry(t) ==
    /\ mgr.pc[t] = "pe_sessions"
    /\ Runnable(mgr, t)
    /\ LET ev == Get(mgr.arg[t])
           m == [mgr EXCEPT !.sessions = EntryOrInsert(@, MgrSession)]
       IN  IF IsSome(ev.tokens_input)
           THEN MgrStep([m EXCEPT !.pc[t] = "pe_limiter",
                                  !.limiter_lock = Enqueue(@, t, "w")])
           ELSE MgrStep([m EXCEPT !.pc[t] = "pe_detect"])

\* process_event: limiter.record_call(..), the limiter guard is dropped
PeRecord(t) ==
    /\ mgr.pc[t] = "pe_limiter"
    /\ Runnable(mgr, t)
    /\ LET ev == Get(mgr.arg[t])
           eff == ProcessEventSessions(mgr.seq.sessions, ev)
           m == [mgr EXCEPT !.rate_limiter = ProcessEventLimiter(@, ev),
                            !.limiter_lock = Release(@, t),
                            !.want[t] = Some(eff.result),
                            !.pc[t] = "pe_detect"]
       IN  MgrStep(TakeEffect(m, [sessions |-> eff.sessions,
                                  rate_limiter |->
                                      ProcessEventLimiter(mgr.seq.rate_limiter, ev)]))

\* process_event: analyze_event, the totals, and the return
PeFinish(t) ==
    /\ mgr.pc[t] = "pe_detect"
    /\ LET ev == Get(mgr.arg[t])
           r == ProcessEventSessions(mgr.sessions, ev)
           eff == ProcessEventSessions(mgr.seq.sessions, ev)
           want == IF IsSome(ev.tokens_input) THEN Get(mgr.want[t]) ELSE eff.result
           m == [mgr EXCEPT !.sessions = r.sessions,
                            !.sessions_lock = Release(@, t),
                            !.pc[t] = "idle", !.arg[t] = None, !.want[t] = None,
                            !.last[t] = [op |-> "process_event",
                                         ok |-> r.result = want, seen |-> 0]]
       IN  IF IsSome(ev.tokens_input) THEN MgrStep(m)
           ELSE MgrStep(TakeEffect(m, [mgr.seq EXCEPT !.sessions = eff.sessions]))

\* record_loop under the write guard
RlRun(t) ==
    /\ mgr.pc[t] = "rl_sessions"
    /\ Runnable(mgr, t)
    /\ LET r == RecordLoop(mgr.sessions)
           eff == RecordLoop(mgr.seq.sessions)
           m == [mgr EXCEPT !.sessions = r.sessions,
                            !.sessions_lock = Release(@, t),
                            !.pc[t] = "idle",
                            !.last[t] = [op |-> "record_loop",
                                         ok |-> r.result = eff.result, seen |-> 0]]
       IN  MgrStep(TakeEffect(m, [mgr.seq EXCEPT !.sessions = eff.sessions]))

\* reset_circuit_breaker under the write guard
RsRun(t) ==
    /\ mgr.pc[t] = "rs_sessions"
    /\ Runnable(mgr, t)
    /\ LET m == [mgr EXCEPT !.sessions = ResetCircuitBreaker(@),
                            !.sessions_lock = Release(@, t),
                            !.pc[t] = "idle",
                            !.last[t] = [op |-> "reset_circuit_breaker",
                                         ok |-> TRUE, seen |-> 0]]
       IN  MgrStep(TakeEffect(m, [mgr.seq EXCEPT
                                     !.sessions = ResetCircuitBreaker(@)]))

\* can_execute under the limiter's write guard
CeRun(t) ==
    /\ mgr.pc[t] = "ce_limiter"
    /\ Runnable(mgr, t)
    /\ LET r == CanMakeCall(mgr.rate_limiter, 0)
           eff == CanMakeCall(mgr.seq.rate_limiter, 0)
           m == [mgr EXCEPT !.rate_limiter = r.limiter,
                            !.limiter_lock = Release(@, t),
                            !.pc[t] = "idle",
                            !.last[t] = [op |-> "can_execute",
                                         ok |-> r.result = eff.result, seen |-> 0]]
       IN  MgrStep(TakeEffect(m, [mgr.seq EXCEPT !.rate_limiter = eff.limiter]))

\* get_status: it has the read guard of the map and reaches
\* self.rate_limiter.read().await
GsSessions(t) ==
    /\ mgr.pc[t] = "gs_sessions"
    /\ Runnable(mgr, t)
    /\ MgrStep([mgr EXCEPT !.pc[t] = "gs_limiter",
                           !.limiter_lock = Enqueue(@, t, "r")])

\* get_status: with both guards, the per-session states are collected
GsLimiter(t) ==
    /\ mgr.pc[t] = "gs_limiter"
    /\ Runnable(mgr, t)
    /\ MgrStep([mgr EXCEPT !.pc[t] = "gs_read", !.snap[t] = mgr.sessions])

\* get_status: limiter.get_state(), the status is returned and both guards
\* are dropped
GsReturn(t) ==
    /\ mgr.pc[t] = "gs_read"
    /\ LET status == GetStatus(mgr.snap[t], mgr.rate_limiter)
       IN  MgrStep([mgr EXCEPT
                      !.sessions_lock = Release(@, t),
                      !.limiter_lock = Release(@, t),
                      !.pc[t] = "idle", !.snap[t] = EmptyMap, !.seen[t] = {},
                      !.last[t] =
                          [op |-> "get_status",
                           ok |-> \E s \in mgr.seen[t] :
                                      status = GetStatus(s.sessions, s.rate_limiter),
                           seen |-> Cardinality(mgr.seen[t])]])

MgrNext ==
    \/ \E t \in MgrTasks :
          \/ \E ev \in MgrEvents : MgrProcessEvent(t, ev)
          \/ MgrSessionsCall(t, "rl_sessions")
          \/ MgrSessionsCall(t, "rs_sessions")
          \/ MgrCanExecute(t)
          \/ MgrGetStatus(t)
          \/ PeEntry(t) \/ PeRecord(t) \/ PeFinish(t)
          \/ RlRun(t) \/ RsRun(t) \/ CeRun(t)
          \/ GsSessions(t) \/ GsLimiter(t) \/ GsReturn(t)
    \/ MgrGrantSessions
    \/ MgrGrantLimiter

SpecMgr == Init /\ [][MgrNext]_vars

----------------------------------------------------------------------------
(* tui.rs: the detail view across the periodic refreshes of run_tui; view   *)
(* records the session_id the view was opened with and the session_id of    *)
(* the last get_session_events call                                         *)

DetailEvents == {<<>>, <<1>>, <<2, 1>>}

SelectedSession(a) == GetAt(a.sessions, a.selected_index)

DetailStep(a, v) ==
    /\ app' = a
    /\ view' = v
    /\ UNCHANGED <<adapterVars, busVars, analyticsVars, guard, mgr, acc,
                   webhooks, snap, ipc, bridge, sse>>

\* every 20th tick: refresh_data, in the main view and in the detail view
DetailRefreshData(fetched) == DetailStep(RefreshData(app, fetched), view)

\* KeyCode::Enter in the main view: toggle_detail_view loads the events of
\* sessions[selected_index]
DetailOpen(events) ==
    /\ ~app.show_detail_view
    /\ DetailStep(ToggleDetailView(app, events),
                  IF ToggleDetailView(app, events).show_detail_view
                  THEN [opened |-> SelectedSession(app),
                        events_of |-> SelectedSession(app)]
                  ELSE view)

\* KeyCode::Esc in the events list
DetailClose ==
    /\ app.show_detail_view
    /\ DetailStep(ToggleDetailView(app, <<>>),
                  [opened |-> None, events_of |-> None])

\* every 10th tick in the detail view: refresh_events loads the events of
\* sessions[selected_index]
DetailRefreshEvents(events) ==
    /\ app.show_detail_view
    /\ RefreshEvents(app, events).event_scroll_offset <= MaxScroll
    /\ DetailStep(RefreshEvents(app, events),
                  IF app.sessions # <<>> /\ app.selected_index < Len(app.sessions)
                  THEN [view EXCEPT !.events_of = SelectedSession(app)]
                  ELSE view)

\* KeyCode::Down and KeyCode::Up in the main view
DetailNextSession ==
    ~app.show_detail_view /\ DetailStep(NextSession(app), view)
DetailPreviousSession ==
    ~app.show_detail_view /\ DetailStep(PreviousSession(app), view)

DetailNext ==
    \/ \E fetched \in FetchedLists : DetailRefreshData(fetched)
    \/ \E events \in DetailEvents : DetailOpen(events)
    \/ DetailClose
    \/ \E events \in DetailEvents : DetailRefreshEvents(events)
    \/ DetailNextSession
    \/ DetailPreviousSession

SpecDetail == Init /\ [][DetailNext]_vars

----------------------------------------------------------------------------
(* terminit.rs: start_server, the accept loop, its clients and stop *)

AccStep(a) ==
    /\ acc' = a
    /\ UNCHANGED <<adapterVars, busVars, analyticsVars, serverVars, guard, mgr,
                   view>>

\* start_server: running becomes true, the listener is bound and the loop
\* is spawned
AccStartServer ==
    /\ acc.pc = "none"
    /\ AccStep([acc EXCEPT !.running = TRUE, !.pc = "check"])

AccCheck ==
    /\ acc.pc = "check"
    /\ AccStep(LoopCheck(acc))

\* a client connects to the socket while the listener exists
AccConnect ==
    /\ acc.pc \in {"check", "accept"}
    /\ acc.pending + acc.accepted < MaxConns
    /\ AccStep([acc EXCEPT !.pending = @ + 1])

AccAccept ==
    /\ acc.pc = "accept"
    /\ acc.pending > 0
    /\ AccStep(Accepted(acc))

\* listener.accept().await returned Err: logged, and the loop goes on
AccAcceptError ==
    /\ acc.pc = "accept"
    /\ acc.accept_errors < MaxAcceptErrors
    /\ AccStep([acc EXCEPT !.accept_errors = @ + 1, !.pc = "check"])

\* the spawned task runs handle_terminit_client for its connection
AccServe ==
    /\ acc.served < acc.accepted
    /\ AccStep([acc EXCEPT !.served = @ + 1])

AccStop ==
    /\ acc.pc # "none"
    /\ ~acc.stopped
    /\ AccStep(StopBridge(acc))

AccNext ==
    \/ AccStartServer
    \/ AccCheck
    \/ AccConnect
    \/ AccAccept
    \/ AccAcceptError
    \/ AccServe
    \/ AccStop

SpecAccept == Init /\ [][AccNext]_vars

----------------------------------------------------------------------------
(* integrations.rs: the three paginated handlers called with any page and   *)
(* per_page of the query string, over the rows the Store returned           *)

MaxPageParam == 3

PagedHandlers == {"list_sessions", "get_session_events", "list_events"}

\* a paginated GET whose Store call returned `total` rows
PageRequest(op, total, page, per_page, overflow_checks) ==
    /\ lastOp' = Some([op |-> op,
                       request |-> [page |-> page, per_page |-> per_page,
                                    total |-> total],
                       ok |-> TRUE,
                       response |-> PaginateUsize([i \in 1..total |-> i], page,
                                                  per_page, overflow_checks)])
    /\ UNCHANGED <<file, now, uuid, running, stopTx, stopMsg, fsEvents, wpc, wq,
                   cur, sessions, spc, stSessions, stEvents, published, built,
                   stored, storeErrors, busVars, analyticsVars, serverVars, taskVars>>

PageNext ==
    \E op \in PagedHandlers, total \in 0..MaxItems, page \in 0..MaxPageParam,
       per_page \in 0..MaxPerPage, overflow_checks \in BOOLEAN :
        PageRequest(op, total, page, per_page, overflow_checks)

SpecPage == Init /\ [][PageNext]_vars

(* Properties *)

\* the value a total has when every entry of the file is counted once
AmountOf(kind, e) ==
    CASE kind = "message_count" -> 1
      [] kind = "tokens_input" ->
            (IF IsSome(InputTokens(e)) THEN Get(InputTokens(e)) ELSE 0)
      [] kind = "tokens_output" ->
            (IF IsSome(OutputTokens(e)) THEN Get(OutputTokens(e)) ELSE 0)
      [] OTHER -> ToolUses(e)

RECURSIVE TotalOver(_, _, _)
TotalOver(lines, project, kind) ==
    IF lines = <<>> THEN 0
    ELSE (IF ~Skipped(Head(lines)) /\ ProjectOf(Head(lines)) = project
          THEN AmountOf(kind, Head(lines)) ELSE 0)
         + TotalOver(Tail(lines), project, kind)

\* keys of the adapter's map that are project paths (filed by the watcher
\* or the scanner)
ProjectKeys == {k \in DOMAIN sessions : sessions[k].project_path = k}

\* C1: every log entry that was stored has exactly one row in
\* session_events, however often its line was re-read: the table has as
\* many rows as there are distinct entries whose insert returned Ok.
OneRowPerLogEntry == Len(stEvents) = Cardinality(stored)

\* C2: every build of the event of one log line gives the same event id.
StableIdPerLine ==
    \A l \in Lines : Cardinality({b \in built : b[1] = l}) <= 1

\* C3: the table never holds two rows of one id, a successful insert_event
\* leaves exactly one row of the event's id, and a row once stored is never
\* changed or removed by a later insert.
InsertEventIdempotent ==
    /\ [](\A i, j \in 1..Len(stEvents) :
             stEvents[i].id = stEvents[j].id => i = j)
    /\ []((IsSome(lastOp) /\ Get(lastOp).op = "insert_event" /\ Get(lastOp).ok)
             => Cardinality(RowsWithId(stEvents, Get(Get(lastOp).event).id)) = 1)
    /\ [][/\ Len(stEvents') >= Len(stEvents)
          /\ \A i \in 1..Len(stEvents) : stEvents'[i] = stEvents[i]]_vars

\* C3 witness: insert_event of an event whose id is stored with another
\* payload returned Ok, other events were inserted too, and the stored row
\* is still the first one.
DuplicateInsertIgnored ==
    /\ lastOp = InsertOp(TestEventA2, TRUE)
    /\ Len(stEvents) = 2
    /\ \E i \in 1..Len(stEvents) :
          /\ stEvents[i].id = TestEventA2.id
          /\ stEvents[i].tokens_input = TestEventA.tokens_input
          /\ stEvents[i].tokens_input # TestEventA2.tokens_input

\* C4: no log entry is published on the Bus more than once.
PublishAtMostOnce ==
    \A l \in Lines :
        Cardinality({i \in 1..Len(published) : published[i].line = l}) <= 1

\* C5: the stored message_count, tokens_input, tokens_output and
\* tool_call_count of a file-watched session never exceed the totals over
\* the distinct entries of the log file (re-reading does not increase them).
CountersMatchDistinctEntries ==
    \A k \in ProjectKeys :
        sessions[k].id \in DOMAIN stSessions =>
            LET row == stSessions[sessions[k].id] IN
            /\ row.message_count <= TotalOver(file, k, "message_count")
            /\ row.tokens_input <= TotalOver(file, k, "tokens_input")
            /\ row.tokens_output <= TotalOver(file, k, "tokens_output")
            /\ row.tool_call_count <= TotalOver(file, k, "tool_call_count")

\* C6: the adapter's map and the Store hold at most one session per
\* project path.
OneSessionPerProject ==
    /\ \A k1, k2 \in DOMAIN sessions :
          sessions[k1].project_path = sessions[k2].project_path => k1 = k2
    /\ \A i1, i2 \in DOMAIN stSessions :
          stSessions[i1].project_path = stSessions[i2].project_path => i1 = i2

\* C7: no step removes a stored session or decreases its message_count,
\* tool_call_count, file_operations, tokens_input, tokens_output or
\* estimated_cost.
UpsertMonotone ==
    [][\A id \in DOMAIN stSessions :
          /\ id \in DOMAIN stSessions'
          /\ stSessions'[id].message_count >= stSessions[id].message_count
          /\ stSessions'[id].tool_call_count >= stSessions[id].tool_call_count
          /\ stSessions'[id].file_operations >= stSessions[id].file_operations
          /\ stSessions'[id].tokens_input >= stSessions[id].tokens_input
          /\ stSessions'[id].tokens_output >= stSessions[id].tokens_output
          /\ stSessions'[id].estimated_cost >= stSessions[id].estimated_cost]_vars

\* C7 witness: a session was upserted again with larger counters.
CountersGrew ==
    \E id \in DOMAIN stSessions :
        /\ stSessions[id].message_count >= 2
        /\ stSessions[id].tool_call_count >= 1
        /\ stSessions[id].tokens_input > 0

\* C8: every stored session has estimated_cost = tokens_input * 3e-6 +
\* tokens_output * 15e-6 (here in millionths).
CostLaw ==
    \A id \in DOMAIN stSessions :
        stSessions[id].estimated_cost =
            stSessions[id].tokens_input * 3 + stSessions[id].tokens_output * 15

\* C8 witness: a stored session with tokens of both kinds.
CostOfTokens ==
    \E id \in DOMAIN stSessions :
        /\ stSessions[id].tokens_input > 0
        /\ stSessions[id].tokens_output > 0
        /\ stSessions[id].estimated_cost > 0

ImmutableOf(row) ==
    <<row.id, row.agent_type, row.external_id, row.project_path, row.started_at>>

\* columns that are neither named immutable nor listed in the update
UnlistedOf(row) == <<row.model_id, row.pid, row.created_at>>

MutableOfRow(row) ==
    <<row.status, row.last_activity_at, row.ended_at, row.duration_seconds,
      row.message_count, row.tool_call_count, row.file_operations,
      row.tokens_input, row.tokens_output, row.estimated_cost,
      row.current_task, row.progress, row.metadata_json>>

MutableOfSession(s) ==
    <<s.status, s.last_activity_at, s.ended_at, s.duration_seconds,
      s.message_count, s.tool_call_count, s.file_operations,
      s.tokens_input, s.tokens_output, s.estimated_cost,
      s.current_task, s.progress, s.metadata>>

WithoutUpdatedAt(tbl) ==
    [id \in DOMAIN tbl |-> [tbl[id] EXCEPT !.updated_at = 0]]

LastUpsertOk ==
    IsSome(lastOp) /\ Get(lastOp).op = "upsert_session" /\ Get(lastOp).ok

\* C9 (as amended): no step changes the id, agent_type, external_id,
\* project_path or started_at of a stored session, nor its model_id, pid or
\* created_at; after a successful upsert the mutable columns are the ones
\* the call carried; and repeating a successful upsert changes no column
\* but updated_at.
UpsertFrame ==
    /\ [][\A id \in DOMAIN stSessions :
             /\ id \in DOMAIN stSessions'
             /\ ImmutableOf(stSessions'[id]) = ImmutableOf(stSessions[id])
             /\ UnlistedOf(stSessions'[id]) = UnlistedOf(stSessions[id])]_vars
    /\ [](LastUpsertOk =>
             LET s == Get(Get(lastOp).session) IN
             /\ s.id \in DOMAIN stSessions
             /\ MutableOfRow(stSessions[s.id]) = MutableOfSession(s))
    /\ [][(LastUpsertOk /\ lastOp' = lastOp) =>
             WithoutUpdatedAt(stSessions') = WithoutUpdatedAt(stSessions)]_vars

\* C9 witness: an upsert that carried other immutable fields for a stored
\* id updated the counter and left the fields of the first insert.
ConflictingUpsertKeptFirst ==
    /\ lastOp = UpsertOp(TestSessionC, TRUE)
    /\ "u1" \in DOMAIN stSessions
    /\ stSessions["u1"].project_path = "/p"
    /\ stSessions["u1"].external_id = "s"
    /\ stSessions["u1"].message_count = 5

\* C9 (as claimed): repeating a successful upsert of the same session
\* leaves the stored row as it was.
UpsertTwiceSameRow ==
    [][(LastUpsertOk /\ lastOp' = lastOp) => stSessions' = stSessions]_vars

\* C10: every event that was published on the Bus has its row in the
\* Store.
PublishedIsStored ==
    \A i \in 1..Len(published) :
        RowsWithId(stEvents, published[i].event.id) # {}

\* the values start, start + 1, ..., next - 1
Contiguous(start, next) == [i \in 1..(next - start) |-> start + i - 1]

\* C11: publish is never held up by the receivers; a receiver that is more
\* than the buffer depth behind gets, on its next receive, a lagged signal
\* and no value, has lost exactly the oldest values it had not taken, and
\* goes on from the oldest value still retained; whatever a receiver has
\* taken is in publish order and everything it has not taken was reported
\* as missed.
PublishNeverBlocks ==
    /\ [](Len(chan) < MaxSent => ENABLED BusPublish)
    /\ [][\A r \in Receivers :
            (/\ rx[r].state = "active"
             /\ Len(chan) - rx[r].next + 1 > BusDepth
             /\ rx'[r] # rx[r]
             /\ rx'[r].state = "active")
            => /\ rx'[r].lags = rx[r].lags + 1
               /\ rx'[r].got = rx[r].got
               /\ rx'[r].next = Len(chan) - BusDepth + 1
               /\ rx'[r].missed = rx[r].missed + (rx'[r].next - rx[r].next)]_vars
    /\ [](\A r \in Receivers :
            rx[r].state # "none" =>
                /\ \A i \in 1..(Len(rx[r].got) - 1) : rx[r].got[i] < rx[r].got[i + 1]
                /\ \A i \in 1..Len(rx[r].got) :
                      rx[r].got[i] \in rx[r].start..(rx[r].next - 1)
                /\ Len(rx[r].got) + rx[r].missed = rx[r].next - rx[r].start)

\* C11 witness: a subscriber stayed idle while more values than the buffer
\* holds were published, then got one lagged signal and after it a later
\* value.
IdleSubscriberLagged ==
    \E r \in Receivers :
        /\ rx[r].start = 1
        /\ rx[r].lags = 1
        /\ rx[r].missed >= 2
        /\ rx[r].got # <<>>
        /\ rx[r].got[1] = rx[r].missed + 1

\* C12: a subscriber that has not lagged has received the values published
\* after its subscribe call, from the first on, in publish order, without
\* gap or duplicate.
FifoPerSubscriber ==
    \A r \in Receivers :
        (rx[r].state # "none" /\ rx[r].lags = 0) =>
            rx[r].got = Contiguous(rx[r].start, rx[r].next)

\* C12 witness: one subscriber has received two values in order while
\* another, subscribed no later, has not yet received the first of them.
SubscribersAtDifferentPoints ==
    \E a, b \in Receivers :
        /\ a # b
        /\ rx[a].lags = 0 /\ rx[b].lags = 0
        /\ rx[a].start > 1
        /\ Len(rx[a].got) >= 2
        /\ rx[b].state = "active"
        /\ rx[b].start <= rx[a].start
        /\ rx[b].got = <<>>

\* C13: a receiver that lagged is still served (its handler did not end
\* because of the lag), and a receiver that did not lag has lost nothing
\* (every value it took reached its client, unless the client's connection
\* failed).
SlowConsumerIsolated ==
    /\ \A h \in Receivers : rx[h].reason # "lagged"
    /\ \A h \in Receivers :
          (rx[h].state # "none" /\ rx[h].lags = 0 /\ rx[h].reason # "send") =>
              rx[h].got = Contiguous(rx[h].start, rx[h].next)

----------------------------------------------------------------------------
(* Exit detector *)

\* the state an operation of the history left behind
After(i) == IF i = Len(calls) THEN detector ELSE calls[i + 1].before

LowerInput(c) == ToLowercase(IF IsSome(c.input) THEN Get(c.input) ELSE <<>>)

IsAnalyze(c) == c.op = "analyze_event"

DoneEvent(c) ==
    /\ IsAnalyze(c)
    /\ HasDoneSignal(LowerInput(c))
    /\ ~HasStrongCompletion(LowerInput(c))

StrongEvent(c) == IsAnalyze(c) /\ HasStrongCompletion(LowerInput(c))

TestOnlyEvent(c) == IsAnalyze(c) /\ IsTestOnly(LowerInput(c))

NonEmptyEvent(c) == IsAnalyze(c) /\ LowerInput(c) # <<>>

\* an event without DONE pattern leaves done_signal_count at 0
NonDoneResets ==
    \A i \in 1..Len(calls) :
        NonEmptyEvent(calls[i]) /\ ~HasDoneSignal(LowerInput(calls[i]))
            => After(i).done_signal_count = 0

\* C14 as stated: two successive DONE events (no STRONG pattern), the first
\* of them counted from 0, return nothing on the first and CompletionSignals
\* on the second; a non-empty event without DONE pattern resets
\* done_signal_count to 0.
DoneSignalsNothingOnFirst ==
    /\ \A i \in 1..(Len(calls) - 1) :
           ( /\ DoneEvent(calls[i]) /\ DoneEvent(calls[i + 1])
             /\ calls[i].before.done_signal_count = 0 )
               => /\ calls[i].result = None
                  /\ calls[i + 1].result = Some("CompletionSignals")
    /\ NonDoneResets

\* C14: two successive DONE events (no STRONG pattern) return
\* CompletionSignals on the second; the first returns nothing when
\* done_signal_count was 0 before it, completion_indicator_count is below its
\* threshold and the event does not bring test_only_count to its threshold;
\* a non-empty event without DONE pattern resets done_signal_count to 0.
DoneSignalsExitOnSecond ==
    /\ \A i \in 1..(Len(calls) - 1) :
           DoneEvent(calls[i]) /\ DoneEvent(calls[i + 1])
               => /\ calls[i + 1].result = Some("CompletionSignals")
                  /\ ( /\ calls[i].before.done_signal_count = 0
                       /\ calls[i].before.completion_indicator_count
                              < CompletionThreshold
                       /\ After(i).test_only_count < TestSaturationThreshold )
                         => calls[i].result = None
    /\ NonDoneResets

\* a first DONE event returning nothing, a second one returning
\* CompletionSignals, and a later event without DONE pattern that zeroes the
\* counter
DoneSignalsThenReset ==
    /\ Len(calls) >= 3
    /\ DoneEvent(calls[1]) /\ calls[1].result = None
    /\ DoneEvent(calls[2]) /\ calls[2].result = Some("CompletionSignals")
    /\ NonEmptyEvent(calls[3]) /\ ~HasDoneSignal(LowerInput(calls[3]))
    /\ calls[3].before.done_signal_count = 2
    /\ After(3).done_signal_count = 0

\* C15: an event whose content matches a STRONG pattern returns
\* StrongCompletion for that event, whatever the counters were.
StrongCompletionImmediate ==
    \A i \in 1..Len(calls) :
        StrongEvent(calls[i]) => calls[i].result = Some("StrongCompletion")

\* two test-only events, then a STRONG event answered StrongCompletion, and a
\* further STRONG event answered so with done_signal_count at its threshold
StrongAfterTwoTestOnly ==
    /\ Len(calls) >= 4
    /\ TestOnlyEvent(calls[1]) /\ TestOnlyEvent(calls[2])
    /\ ~StrongEvent(calls[1]) /\ ~StrongEvent(calls[2])
    /\ StrongEvent(calls[3]) /\ calls[3].before.test_only_count = 2
    /\ calls[3].result = Some("StrongCompletion")
    /\ StrongEvent(calls[4]) /\ After(4).done_signal_count >= DoneThreshold
    /\ calls[4].result = Some("StrongCompletion")

PlainTestOnlyEvent(c) ==
    /\ TestOnlyEvent(c)
    /\ ~HasDoneSignal(LowerInput(c))
    /\ ~HasStrongCompletion(LowerInput(c))

----------------------------------------------------------------------------
(* Circuit breaker *)

BreakerAfter(i) == IF i = Len(calls) THEN breaker ELSE calls[i + 1].before

IsRecord(c) == c.op = "record_result"

NoProgressCall(c) ==
    /\ IsRecord(c)
    /\ c.input.files_changed = 0
    /\ c.input.tokens_used <= 1000

ProgressCall(c) ==
    /\ IsRecord(c)
    /\ (c.input.files_changed > 0 \/ c.input.tokens_used > 1000)

SignatureOf(c) == ErrorSignature(ToLowercase(c.input.content))

\* C17: from a Closed breaker with zero counters, three consecutive
\* record_result calls without progress return false, false, true and the
\* third leaves the breaker Open; a call with progress resets
\* no_progress_count to 0.
NoProgressOpensOnThird ==
    /\ \A i \in 1..(Len(calls) - 2) :
           ( /\ \A k \in i..(i + 2) : NoProgressCall(calls[k])
             /\ calls[i].before.state = "Closed"
             /\ calls[i].before.no_progress_count = 0
             /\ calls[i].before.repeated_error_count = 0 )
               => /\ calls[i].result = FALSE
                  /\ calls[i + 1].result = FALSE
                  /\ BreakerAfter(i + 1).state = "Closed"
                  /\ calls[i + 2].result = TRUE
                  /\ BreakerAfter(i + 2).state = "Open"
    /\ \A i \in 1..Len(calls) :
           ProgressCall(calls[i]) => BreakerAfter(i).no_progress_count = 0

\* a call without progress, a call with progress that zeroes the counter,
\* then three calls without progress of which the third opens the breaker
NoProgressOpenedAfterProgress ==
    /\ Len(calls) = 5
    /\ NoProgressCall(calls[1])
    /\ ProgressCall(calls[2])
    /\ calls[2].before.no_progress_count = 1
    /\ calls[3].before.no_progress_count = 0
    /\ calls[3].before.repeated_error_count = 0
    /\ \A k \in 3..5 : NoProgressCall(calls[k])
    /\ calls[3].result = FALSE /\ calls[4].result = FALSE
    /\ calls[5].result = TRUE
    /\ breaker.state = "Open"

\* C18: five consecutive record_result calls with progress and the same error
\* signature, the first of them not continuing that signature, return false
\* four times and true on the fifth, which leaves the breaker Open; a call
\* with another signature than the remembered one sets repeated_error_count
\* to 1, a call without error sets it to 0.
RepeatedErrorOpensOnFifth ==
    /\ \A i \in 1..(Len(calls) - 4) :
           ( /\ \A k \in i..(i + 4) :
                    /\ ProgressCall(calls[k])
                    /\ IsSome(SignatureOf(calls[k]))
                    /\ SignatureOf(calls[k]) = SignatureOf(calls[i])
             /\ calls[i].before.last_error_signature # SignatureOf(calls[i]) )
               => /\ \A k \in i..(i + 3) : calls[k].result = FALSE
                  /\ calls[i].before.state = "Closed"
                         => BreakerAfter(i + 3).state = "Closed"
                  /\ calls[i + 4].result = TRUE
                  /\ BreakerAfter(i + 4).state = "Open"
    /\ \A i \in 1..Len(calls) :
           IsRecord(calls[i])
               => /\ ( /\ IsSome(SignatureOf(calls[i]))
                       /\ SignatureOf(calls[i])
                              # calls[i].before.last_error_signature )
                         => BreakerAfter(i).repeated_error_count = 1
                  /\ SignatureOf(calls[i]) = None
                         => BreakerAfter(i).repeated_error_count = 0

\* an error, then five calls with another error signature, given by two
\* different outputs, of which the fifth opens the breaker
RepeatedErrorOpened ==
    /\ Len(calls) = 6
    /\ \A k \in 1..6 : ProgressCall(calls[k]) /\ IsSome(SignatureOf(calls[k]))
    /\ SignatureOf(calls[1]) # SignatureOf(calls[2])
    /\ calls[2].before.repeated_error_count = 1
    /\ calls[3].before.repeated_error_count = 1
    /\ \A k \in 3..6 : SignatureOf(calls[k]) = SignatureOf(calls[2])
    /\ \E k \in 3..6 : calls[k].input.content # calls[2].input.content
    /\ \A k \in 1..5 : calls[k].result = FALSE
    /\ calls[6].result = TRUE
    /\ breaker.state = "Open"
    /\ breaker.no_progress_count = 0

\* C19: reset() leaves the breaker Closed with both counters 0 and no error
\* signature, open time or open reason; the two record_result calls after a
\* reset() do not open it; record_result on an Open breaker leaves it Open.
ResetClosesBreaker ==
    \A i \in 1..Len(calls) :
        /\ calls[i].op = "reset"
               => /\ BreakerAfter(i).state = "Closed"
                  /\ BreakerAfter(i).no_progress_count = 0
                  /\ BreakerAfter(i).repeated_error_count = 0
                  /\ BreakerAfter(i).last_error_signature = None
                  /\ BreakerAfter(i).opened_at = None
                  /\ BreakerAfter(i).open_reason = None
                  /\ \A k \in (i + 1)..(i + 2) :
                         k <= Len(calls) /\ IsRecord(calls[k])
                             => /\ calls[k].result = FALSE
                                /\ BreakerAfter(k).state = "Closed"
        /\ IsRecord(calls[i]) /\ calls[i].before.state = "Open"
               => BreakerAfter(i).state = "Open"

\* a breaker that is Open with both counters above 0 and a remembered error
\* signature, still Open after a further record_result, then reset
OpenBreakerReset ==
    /\ Len(calls) >= 2
    /\ LET n == Len(calls)
       IN  /\ calls[n].op = "reset"
           /\ calls[n].before.state = "Open"
           /\ calls[n].before.no_progress_count > 0
           /\ calls[n].before.repeated_error_count > 0
           /\ IsSome(calls[n].before.last_error_signature)
           /\ IsRecord(calls[n - 1])
           /\ calls[n - 1].before.state = "Open"
    /\ breaker.state = "Closed"

----------------------------------------------------------------------------
(* Rate limiter *)

LimiterAfter(i) == IF i = Len(calls) THEN limiter ELSE calls[i + 1].before

\* record_call calls made before call i within the hour of call i
RecordedInHour(i) ==
    Cardinality({k \in 1..(i - 1) :
                    /\ calls[k].op = "record_call"
                    /\ calls[k].at \div 3600000 = calls[i].at \div 3600000})

HourChanged(c) == c.at \div 3600000 # c.before.last_reset_hour

\* C20: with limiting enabled can_make_call answers whether fewer than
\* max_calls_per_hour calls were recorded within the current hour, which is
\* whether calls_this_hour < max_calls_per_hour; once max_calls_per_hour were
\* recorded in the hour it answers false and remaining_calls answers 0; the
\* first can_make_call or record_call after the hour stamp changed zeroes
\* calls_this_hour and tokens_this_hour before answering or counting.
RateLimiterWindow ==
    \A i \in 1..Len(calls) :
        /\ calls[i].op = "can_make_call" /\ ~calls[i].before.disabled
               => /\ LimiterAfter(i).calls_this_hour = RecordedInHour(i)
                  /\ calls[i].result
                         = (RecordedInHour(i)
                                < calls[i].before.max_calls_per_hour)
                  /\ HourChanged(calls[i])
                         => /\ LimiterAfter(i).calls_this_hour = 0
                            /\ LimiterAfter(i).tokens_this_hour = 0
        /\ ( /\ calls[i].op = "remaining_calls"
             /\ RecordedInHour(i) >= calls[i].before.max_calls_per_hour )
               => calls[i].result = 0
        /\ calls[i].op = "record_call"
               => /\ LimiterAfter(i).calls_this_hour = RecordedInHour(i) + 1
                  /\ HourChanged(calls[i])
                         => /\ LimiterAfter(i).calls_this_hour = 1
                            /\ LimiterAfter(i).tokens_this_hour
                                   = Get(calls[i].input)

\* max_calls_per_hour calls recorded, can_make_call answered false and
\* remaining_calls 0 within the hour, and can_make_call in the next hour
\* zeroed both counters and answered true
WindowExhaustedThenRenewed ==
    /\ Len(calls) = 5
    /\ ~limiter.disabled
    /\ calls[1].op = "record_call" /\ calls[2].op = "record_call"
    /\ calls[3].op = "can_make_call" /\ calls[3].result = FALSE
    /\ calls[3].before.calls_this_hour = calls[3].before.max_calls_per_hour
    /\ calls[4].op = "remaining_calls" /\ calls[4].result = 0
    /\ ~HourChanged(calls[4])
    /\ calls[5].op = "can_make_call" /\ HourChanged(calls[5])
    /\ calls[5].before.calls_this_hour > 0
    /\ calls[5].before.tokens_this_hour > 0
    /\ calls[5].result = TRUE
    /\ limiter.calls_this_hour = 0 /\ limiter.tokens_this_hour = 0

\* the flag given by the last set_disabled before call i
FlagBefore(i) ==
    LET sets == {k \in 1..(i - 1) : calls[k].op = "set_disabled"}
    IN  IF sets = {} THEN FALSE
        ELSE Get(calls[CHOOSE k \in sets : \A m \in sets : m <= k].input)

\* C21: the flag given by set_disabled is the one the next calls see; while
\* disabled can_make_call answers true and changes nothing; record_call
\* counts whether disabled or not, so that after set_disabled(false)
\* can_make_call answers from the calls recorded within the hour.
DisabledFlagImmediate ==
    \A i \in 1..Len(calls) :
        /\ calls[i].before.disabled = FlagBefore(i)
        /\ calls[i].op = "can_make_call"
               => IF FlagBefore(i)
                  THEN /\ calls[i].result = TRUE
                       /\ LimiterAfter(i) = calls[i].before
                  ELSE calls[i].result
                           = (RecordedInHour(i)
                                  < calls[i].before.max_calls_per_hour)
        /\ calls[i].op = "record_call"
               => /\ LimiterAfter(i).calls_this_hour = RecordedInHour(i) + 1
                  /\ LimiterAfter(i).total_calls
                         = calls[i].before.total_calls + 1
                  /\ LimiterAfter(i).disabled = calls[i].before.disabled

\* a limiter disabled, exhausted by calls recorded while disabled, answering
\* true, then enabled again within the hour and answering false
ExhaustedAgainAfterReenable ==
    /\ Len(calls) = 6
    /\ calls[1].op = "set_disabled" /\ calls[1].input = Some(TRUE)
    /\ calls[2].op = "record_call" /\ calls[3].op = "record_call"
    /\ calls[4].op = "can_make_call" /\ calls[4].result = TRUE
    /\ calls[4].before.calls_this_hour = calls[4].before.max_calls_per_hour
    /\ calls[5].op = "set_disabled" /\ calls[5].input = Some(FALSE)
    /\ calls[6].op = "can_make_call" /\ calls[6].result = FALSE
    /\ ~HourChanged(calls[6])

----------------------------------------------------------------------------
(* REST handlers *)

\* what list_events_handler answers for page k
EventsPage(params, k) ==
    Get(ListEventsHandler(stEvents, [params EXCEPT !.page = k], TRUE).data)

RECURSIVE ItemsUpTo(_, _)
ItemsUpTo(params, k) ==
    IF k = 0 THEN <<>>
    ELSE ItemsUpTo(params, k - 1) \o EventsPage(params, k).items

\* ceil(total / per_page)
Ceil(total, per_page) ==
    CHOOSE n \in 0..total : n * per_page >= total /\ (n - 1) * per_page < total

\* the pages 1..total_pages of the events list hold `total` items, none
\* twice, and total_pages is ceil(total / per_page)
EventPagesPartition ==
    \A params \in EventsParams :
        LET first == EventsPage(params, 1)
            all == ItemsUpTo(params, first.total_pages)
        IN  /\ Len(all) = first.total
            /\ \A i, j \in 1..Len(all) : all[i].id = all[j].id => i = j
            /\ first.total_pages = Ceil(first.total, params.per_page)
            /\ \A k \in 1..first.total_pages :
                   /\ EventsPage(params, k).total = first.total
                   /\ EventsPage(params, k).total_pages = first.total_pages

\* C22: over an unchanged Store the pages 1..total_pages of the events list
\* hold `total` items, none twice, total_pages is ceil(total / per_page), and
\* total is the number of stored events that pass the filter.
PaginationLaw ==
    /\ EventPagesPartition
    /\ \A params \in EventsParams :
           EventsPage(params, 1).total
               = Cardinality({i \in 1..Len(stEvents) :
                                 EventPasses(RowToEvent(stEvents[i]), params)})

\* the ApiResponse of the last request
LastBody ==
    IF Get(lastOp).op = "get_session" THEN Get(lastOp).response.body
    ELSE Get(lastOp).response

\* C30: a REST handler whose Store call failed answers success = false with
\* an error message, never success = true.
StoreErrorWrapped ==
    IsSome(lastOp) /\ ~Get(lastOp).ok
        => /\ LastBody.success = FALSE
           /\ IsSome(LastBody.error)

\* get_session_handler wraps the error of its Store call
GetSessionErrorWrapped ==
    ( /\ IsSome(lastOp)
      /\ Get(lastOp).op = "get_session"
      /\ ~Get(lastOp).ok )
        => /\ LastBody.success = FALSE
           /\ IsSome(LastBody.error)
           /\ Get(lastOp).response.status = 500

----------------------------------------------------------------------------
(* Terminal interface *)

\* the list, the selected index and the scroll offset the last refresh left
ListAfter ==
    IF app.last[1].op = "refresh_data" THEN app.sessions
    ELSE app.session_events
SelectedAfter ==
    IF app.last[1].op = "refresh_data" THEN app.selected_index
    ELSE app.selected_event_index
OffsetAfter ==
    IF app.last[1].op = "refresh_data" THEN app.session_scroll_offset
    ELSE app.event_scroll_offset

\* the refresh found an item selected, and the refreshed list still has it
SelectedKept ==
    /\ app.last # None
    /\ app.last[1].selected < Len(app.last[1].list)
    /\ \E i \in 1..Len(ListAfter) :
           ListAfter[i] = app.last[1].list[app.last[1].selected + 1]

\* the refreshed list is the list before with items put in front of it
GrewAtHead ==
    /\ Len(ListAfter) > Len(app.last[1].list)
    /\ SubSeq(ListAfter, Len(ListAfter) - Len(app.last[1].list) + 1,
              Len(ListAfter)) = app.last[1].list

\* after a refresh the selected index points to the id that was selected
\* before it, if the refreshed list still has that id
SelectionFollowsId ==
    SelectedKept =>
        /\ SelectedAfter < Len(ListAfter)
        /\ ListAfter[SelectedAfter + 1] =
               app.last[1].list[app.last[1].selected + 1]

\* C24: after a refresh the selected index points to the id selected before
\* it, if the refreshed list still has that id; and when the list grew at
\* the head the scroll offset grew by as many rows as were put in front, so
\* that the selection is drawn on the row it was drawn on
SelectionStable ==
    /\ SelectionFollowsId
    /\ SelectedKept /\ GrewAtHead =>
           /\ OffsetAfter =
                  app.last[1].offset + Len(ListAfter) - Len(app.last[1].list)
           /\ SelectedAfter - OffsetAfter =
                  app.last[1].selected - app.last[1].offset

\* a refresh of the events put an event in front of the selected one
EventPutInFront ==
    /\ app.last # None
    /\ app.last[1].op = "refresh_events"
    /\ SelectedKept
    /\ GrewAtHead

----------------------------------------------------------------------------
(* Webhooks *)

\* every delivery a trigger has started so far
Deliveries == webhooks.spawned \cup webhooks.posted

\* the registrations of the list the last trigger started a delivery to
StartedTo ==
    {i \in 1..Len(webhooks.last[1].list) :
        \E k \in 1..Len(webhooks.last[1].started) :
            /\ webhooks.last[1].started[k].to = webhooks.last[1].list[i]
            /\ webhooks.last[1].started[k].event_type =
                   webhooks.last[1].event_type}

\* C23: a trigger starts a delivery to a registration if and only if the
\* registration is enabled and its events hold the event type or "*", and
\* one delivery for each such registration; a registration for
\* session_start only gets session_start, a disabled one gets nothing, and
\* an id that was unregistered gets nothing from the triggers made after
WebhookRouting ==
    /\ webhooks.last # None =>
           /\ \A i \in 1..Len(webhooks.last[1].list) :
                  i \in StartedTo <=>
                      /\ webhooks.last[1].list[i].enabled
                      /\ \E j \in 1..Len(webhooks.last[1].list[i].events) :
                             webhooks.last[1].list[i].events[j]
                                 \in {webhooks.last[1].event_type, "*"}
           /\ Len(webhooks.last[1].started) <= Len(webhooks.last[1].list)
           /\ \A k \in 1..Len(webhooks.last[1].started) :
                  /\ webhooks.last[1].started[k].url =
                         webhooks.last[1].started[k].to.url
                  /\ \E i \in 1..Len(webhooks.last[1].list) :
                         webhooks.last[1].list[i] =
                             webhooks.last[1].started[k].to
    /\ \A d \in Deliveries :
           /\ d.to.enabled
           /\ d.to.events = <<"session_start">> =>
                  d.event_type = "session_start"
           /\ \A r \in webhooks.removed : r.id = d.to.id => d.n <= r.at

\* a trigger of session_end reached a "*" registration and passed by a
\* session_start registration, after another id was unregistered
RoutedPastOthers ==
    /\ webhooks.last # None
    /\ webhooks.last[1].event_type = "session_end"
    /\ Len(webhooks.last[1].started) = 1
    /\ webhooks.last[1].started[1].to.events = <<"*">>
    /\ \E i \in 1..Len(webhooks.last[1].list) :
           /\ webhooks.last[1].list[i].events = <<"session_start">>
           /\ webhooks.last[1].list[i].enabled
    /\ webhooks.removed # {}
    /\ \E d \in webhooks.posted : d.n < webhooks.triggers

----------------------------------------------------------------------------
(* Status file *)

\* C25: once a write of the status file has completed, the path holds a
\* whole document at every moment: the previous one or the new one,
\* whether later writes complete, fail or are cut short by a crash
SnapshotAtomic ==
    snap.good => snap.disk # None /\ IsDocument(snap.disk[1])

----------------------------------------------------------------------------
(* Task list *)

\* the mark of a checkbox line: a bullet - or *, a space and a box holding
\* a blank, x or X, after leading whitespace; None for any other line
MarksOf(line) ==
    {line[k + 4] : k \in {k \in 0..Len(line) :
        /\ k + 5 <= Len(line)
        /\ \A j \in 1..k : line[j] \in {" ", "\t"}
        /\ line[k + 1] \in {"-", "*"}
        /\ line[k + 2] = " "
        /\ line[k + 3] = "["
        /\ line[k + 4] \in {" ", "x", "X"}
        /\ line[k + 5] = "]"}}

\* C26: check_task_list_complete returns true if and only if the text has
\* a checkbox line and every checkbox line of it is checked; one unchecked
\* line anywhere makes it false, and so does a text without checkbox lines
TaskListCompleteIff ==
    \A i \in 1..Len(calls) :
        calls[i].op = "check_task_list_complete" =>
            LET ls == calls[i].input.lines
            IN  calls[i].result <=>
                    /\ \E l \in 1..Len(ls) : MarksOf(ls[l]) # {}
                    /\ \A l \in 1..Len(ls) : " " \notin MarksOf(ls[l])

\* true for an indented list of checked items with both bullets and both
\* marks, around a line that is no checkbox
MixedListComplete ==
    \E i \in 1..Len(calls) :
        /\ calls[i].op = "check_task_list_complete"
        /\ calls[i].result
        /\ calls[i].input.lines =
               <<<<" ", "-", " ", "[", "x", "]", " ", "t">>,
                 <<"+", " ", "[", " ", "]">>,
                 <<"*", " ", "[", "X", "]">>>>

----------------------------------------------------------------------------
(* IPC *)

\* the lines of a connection that are requests: they parse as JSON
RECURSIVE RequestsOf(_)
RequestsOf(lines) ==
    IF lines = <<>> THEN <<>>
    ELSE IF Head(lines).json THEN <<Head(lines)>> \o RequestsOf(Tail(lines))
    ELSE RequestsOf(Tail(lines))

\* the key of the response a request asks for
KeyFor(request) ==
    IF request.action = Some("get_sessions") THEN "sessions"
    ELSE IF request.action = Some("get_metrics") THEN "metrics"
    ELSE IF request.action = Some("get_events") THEN "events"
    ELSE "error"

\* the responses on a connection answer the first requests read from it,
\* one each and in their order
IpcResponsesInOrder ==
    \A c \in 1..MaxConns :
        /\ Len(ipc.conns[c].out) <= Len(RequestsOf(ipc.conns[c].read))
        /\ \A i \in 1..Len(ipc.conns[c].out) :
               ipc.conns[c].out[i].key = KeyFor(RequestsOf(ipc.conns[c].read)[i])

\* a request with an unknown or no action is answered with the error
\* naming the action, and the connection stays open until the client
\* closes it, if the response could be written
IpcUnknownAnswered ==
    \A c \in 1..MaxConns :
        \A i \in 1..Len(ipc.conns[c].read) :
            LET request == ipc.conns[c].read[i]
            IN  /\ request.json
                /\ KeyFor(request) = "error"
                /\ ipc.conns[c].failure # Some("write")
                /\ \A j \in 1..(i - 1) : ipc.conns[c].read[j].json
                => /\ i <= Len(ipc.conns[c].out)
                   /\ ipc.conns[c].out[i].error =
                          Some(<<"Unknown action: ",
                                 IF request.action = None THEN ""
                                 ELSE request.action[1]>>)
                   /\ i = Len(ipc.conns[c].read) /\ ~ipc.conns[c].eof =>
                          ipc.conns[c].state = "open"

\* the accept loop goes on whatever happens to accept or to a connection
IpcAcceptLoopRuns == ipc.listening

\* C27: on one connection every request line read has exactly one
\* response line, written before the next line is read, so the responses
\* are in the order of the requests; an unknown or missing action is
\* answered with the error and leaves the connection open; the accept loop
\* outlives accept errors and failed connections.  Lines that do not parse
\* and connections that cannot be written to are not held against it.
IpcOneResponsePerRequest ==
    /\ IpcResponsesInOrder
    /\ IpcUnknownAnswered
    /\ IpcAcceptLoopRuns
    /\ \A c \in 1..MaxConns :
           ipc.conns[c].failure \notin {Some("write"), Some("parse")} =>
               Len(ipc.conns[c].out) = Len(RequestsOf(ipc.conns[c].read))

----------------------------------------------------------------------------
(* Bridge *)

\* the replies written on a connection, in order
RECURSIVE RepliesOf(_)
RepliesOf(out) ==
    IF out = <<>> THEN <<>>
    ELSE IF Head(out).re # 0 THEN <<Head(out)>> \o RepliesOf(Tail(out))
    ELSE RepliesOf(Tail(out))

\* the numbers of the lines read on a connection that ask for a reply
Asking(c) ==
    {i \in 1..Len(bridge.conns[c].read) :
        bridge.conns[c].read[i] \in {"Ping", "GetSessions"}}

\* each Ping read has exactly one Pong, each GetSessions read exactly one
\* SessionsList or Error, in the order of the requests, and nothing else
\* read has a reply, on a connection that could be written to
BridgeRepliesMatch ==
    \A c \in 1..MaxClients :
        bridge.conns[c].failure = None =>
            LET replies == RepliesOf(bridge.conns[c].out)
            IN  /\ {replies[k].re : k \in 1..Len(replies)} = Asking(c)
                /\ Len(replies) = Cardinality(Asking(c))
                /\ \A k \in 1..Len(replies) :
                       /\ \A j \in 1..(k - 1) : replies[j].re < replies[k].re
                       /\ bridge.conns[c].read[replies[k].re] = "Ping" =>
                              replies[k].kind = "Pong"
                       /\ bridge.conns[c].read[replies[k].re] = "GetSessions"
                              => replies[k].kind \in {"SessionsList", "Error"}

\* C28: the first message written on every accepted connection is the
\* SessionsList sent on accept, before any broadcast and any reply; after
\* it each Ping gets one Pong, each GetSessions one SessionsList or Error,
\* and Subscribe and Unsubscribe get nothing
BridgeProtocol ==
    /\ BridgeRepliesMatch
    /\ \A c \in 1..MaxClients :
           bridge.conns[c].out # <<>> =>
               /\ bridge.conns[c].out[1].kind = "SessionsList"
               /\ bridge.conns[c].out[1].re = 0

\* a connection got its SessionsList, a broadcast, a Pong and the Error of
\* a failed GetSessions
BridgeServedAll ==
    \E c \in 1..MaxClients :
        /\ bridge.conns[c].read = <<"Ping", "GetSessions">>
        /\ Len(bridge.conns[c].out) = 4
        /\ bridge.conns[c].out[1].kind = "SessionsList"
        /\ bridge.conns[c].out[4].kind = "Error"

----------------------------------------------------------------------------
(* SSE stream *)

\* the values of event_tx a client's receiver has still to take
SsePending(c) ==
    {sse.event_tx[i] : i \in sse.clients[c].next..Len(sse.event_tx)}

\* the events a client was sent as frames
SseFramed(c) ==
    {sse.clients[c].frames[k].data : k \in 1..Len(sse.clients[c].frames)}

\* C29: an event published on the EventBus while a client is connected to
\* the stream is on its way to that client, unless the client lagged: it
\* was sent as an event frame or the client's receiver holds it, and the
\* frames are in publish order
SseBridgesBus ==
    \A c \in 1..MaxConns :
        sse.clients[c].state = "connected" /\ sse.clients[c].lags = 0 =>
            /\ \A i \in (sse.clients[c].since + 1)..Len(chan) :
                   chan[i] \in SseFramed(c) \cup SsePending(c)
            /\ \A k \in 2..Len(sse.clients[c].frames) :
                   sse.clients[c].frames[k - 1].data
                       < sse.clients[c].frames[k].data

\* no client is ever sent an event frame
SseNeverFrames == \A c \in 1..MaxConns : sse.clients[c].frames = <<>>

----------------------------------------------------------------------------
(* Session map lock *)

\* C31: no task holds the write lock of the session map while it is
\* suspended in a Store call, so no other task waits for the lock for the
\* length of a Store call
NoLockAcrossStoreCall ==
    \A t \in GuardTasks :
        InStoreCall(guard, t) =>
            /\ guard.holder # t
            /\ \A u \in GuardTasks \ {t} :
                   ~(guard.pc[u] = "write" /\ guard.holder # "none")

\* the lock is exclusive: only its holder is between acquire and drop
GuardExclusive ==
    \A t \in GuardTasks : InStoreCall(guard, t) => guard.holder = t

----------------------------------------------------------------------------
(* Adapter stop *)

\* a step of the process scanner that scans
ScanStep == spc = "tick" /\ spc' = "check"

\* a step of the file watcher that takes a file event or an entry of it
WatcherWorkStep ==
    \/ wpc = "idle" /\ wpc' = "batch"
    \/ wpc = "idle" /\ fsEvents' = fsEvents - 1 /\ wpc' = "idle"
    \/ wpc = "batch"
    \/ wpc = "publish"

\* once the watcher has taken the stop message it does nothing until the
\* adapter is started again
WatcherQuietAfterStop ==
    [][wpc = "stopped" => ~WatcherWorkStep]_vars

\* stop leaves running false and at most one message in the stop channel,
\* and never waits: it is enabled whenever the adapter runs
StopSendsOnce ==
    [][running /\ ~running' =>
           /\ ~stopTx'
           /\ stopMsg' => stopTx /\ WatcherAlive]_vars

\* C32: stop sets running to false and sends one stop message; after the
\* watcher took the message it handles no file event, and the process
\* scanner starts no scan and upserts no session once running is false
StopQuiesces ==
    [][/\ wpc = "stopped" => ~WatcherWorkStep
       /\ ScanStep => running
       /\ ~running /\ stSessions' # stSessions => ~ScanStep]_vars

----------------------------------------------------------------------------
(* Event kind of a log entry *)

HasRole(e) == IsSome(e.message) /\ IsSome(Get(e.message).role)

KindOfRole(role) ==
    IF role = "user" THEN "PromptReceived"
    ELSE IF role = "assistant" THEN "ResponseGenerated" ELSE "Custom"

\* C33 as stated: the event kind follows message.role, and an entry without
\* message.role gives Custom whatever its type field is
EventKindFromRoleOnly ==
    IsSome(cur) =>
        LET e == Get(cur).line IN
        Get(cur).event.event_type =
            (IF HasRole(e) THEN KindOfRole(Get(Get(e.message).role)) ELSE "Custom")

\* C33 amended: the event kind follows message.role, and for an entry without
\* message.role it follows the entry's type field in the same way (user,
\* assistant, anything else or no type gives Custom)
EventKindFromRoleOrType ==
    IsSome(cur) =>
        LET e == Get(cur).line IN
        Get(cur).event.event_type =
            (IF HasRole(e) THEN KindOfRole(Get(Get(e.message).role))
             ELSE IF IsSome(e.type) THEN KindOfRole(Get(e.type)) ELSE "Custom")

\* an entry of type user without message.role was processed into a
\* PromptReceived event
TypeOnlyEntryIsPrompt ==
    /\ IsSome(cur)
    /\ ~HasRole(Get(cur).line)
    /\ Get(cur).line.type = Some("user")
    /\ Get(cur).event.event_type = "PromptReceived"

----------------------------------------------------------------------------
(* Model recording *)

\* a step of process_entry that processed an entry, both Store calls included
EntryStep == wpc = "batch" /\ wpc' = "publish"

\* the in-memory session keeps the first model it saw
ModelKeptOnceSet ==
    [][\A p \in DOMAIN sessions :
          IsSome(sessions[p].model_id) =>
              p \in DOMAIN sessions' /\ sessions'[p].model_id = sessions[p].model_id]_vars

\* the entry's model is recorded in the in-memory session when none was set
ModelRecordedInMemory ==
    [][EntryStep =>
          LET e == Get(cur').line
              p == ProjectOf(e) IN
          (/\ IsSome(e.message) /\ IsSome(Get(e.message).model)
           /\ (p \notin DOMAIN sessions \/ ~IsSome(sessions[p].model_id)))
          => sessions'[p].model_id = Get(e.message).model]_vars

\* C34: an entry with message.model, processed while the session has no
\* model_id and with the Store answering, leaves get_session returning the
\* session with that model_id, also when the row was stored before by an
\* entry without a model; a model_id once set is not changed
ModelRecorded ==
    [][/\ \A p \in DOMAIN sessions :
             IsSome(sessions[p].model_id) =>
                 p \in DOMAIN sessions' /\ sessions'[p].model_id = sessions[p].model_id
       /\ EntryStep /\ storeErrors' = 0 =>
             LET e == Get(cur').line
                 p == ProjectOf(e) IN
             (/\ IsSome(e.message) /\ IsSome(Get(e.message).model)
              /\ (p \notin DOMAIN sessions \/ ~IsSome(sessions[p].model_id)))
             => LET got == GetSession(stSessions', sessions'[p].id) IN
                IsSome(got) /\ Get(got).model_id = Get(e.message).model]_vars

----------------------------------------------------------------------------
(* Exit detector: empty content, and ProjectComplete *)

EmptyEvent(c) == IsAnalyze(c) /\ LowerInput(c) = <<>>

\* an event without content leaves test_only_count,
\* completion_indicator_count and the recent contents as they were
EmptyContentKeepsOthers ==
    \A i \in 1..Len(calls) :
        EmptyEvent(calls[i]) =>
            /\ After(i).test_only_count = calls[i].before.test_only_count
            /\ After(i).completion_indicator_count
                   = calls[i].before.completion_indicator_count
            /\ After(i).recent_content = calls[i].before.recent_content

\* C35: an event whose content is absent or empty leaves the four fields of
\* the exit detector unchanged, and two DONE events with only such an event
\* between them count as successive: the second returns CompletionSignals
EmptyContentIsFrame ==
    /\ \A i \in 1..Len(calls) :
           EmptyEvent(calls[i]) => After(i) = calls[i].before
    /\ \A i \in 1..(Len(calls) - 2) :
           DoneEvent(calls[i]) /\ EmptyEvent(calls[i + 1]) /\ DoneEvent(calls[i + 2])
               => calls[i + 2].result = Some("CompletionSignals")

RECURSIVE StrongSince(_)
\* the number of STRONG events among the first i calls since the last reset
StrongSince(i) ==
    IF i = 0 \/ calls[i].op = "reset" THEN 0
    ELSE StrongSince(i - 1) + (IF StrongEvent(calls[i]) THEN 1 ELSE 0)

\* C36 as stated: analyze_event never returns ProjectComplete
NeverProjectComplete ==
    \A i \in 1..Len(calls) : calls[i].result # Some("ProjectComplete")

\* C36 amended: analyze_event returns ProjectComplete on no STRONG event and
\* on no event before two STRONG events were analysed since construction or
\* the last reset; after two of them it returns ProjectComplete on every
\* event that matches no STRONG pattern and is not the second or later of a
\* run of DONE events
ProjectCompleteAfterTwoStrong ==
    \A i \in 1..Len(calls) :
        calls[i].result = Some("ProjectComplete")
            <=> /\ IsAnalyze(calls[i])
                /\ ~StrongEvent(calls[i])
                /\ StrongSince(i - 1) >= 2
                /\ ~(/\ DoneEvent(calls[i])
                     /\ calls[i].before.done_signal_count >= 1)

\* two STRONG events answered StrongCompletion, then an event without content
\* answered ProjectComplete
ProjectCompleteReturned ==
    /\ Len(calls) >= 3
    /\ StrongEvent(calls[1]) /\ StrongEvent(calls[2])
    /\ calls[2].result = Some("StrongCompletion")
    /\ EmptyEvent(calls[3])
    /\ calls[3].result = Some("ProjectComplete")

----------------------------------------------------------------------------
(* AnalyticsManager *)

\* what is in memory is the state the calls made so far leave in their
\* sequential order, wherever no writer is at work
MgrMemoryIsSequential ==
    /\ mgr.sessions_lock.w = "none" => mgr.sessions = mgr.seq.sessions
    /\ mgr.limiter_lock.w = "none" => mgr.rate_limiter = mgr.seq.rate_limiter

\* a call in progress leaves something to do: a lock can be handed over, or
\* a task holds what it waits for
MgrNoDeadlock ==
    (\E t \in MgrTasks : mgr.pc[t] # "idle") =>
        \/ CanGrant(mgr.sessions_lock)
        \/ CanGrant(mgr.limiter_lock)
        \/ \E t \in MgrTasks : Runnable(mgr, t)

\* C37: the calls of process_event, record_loop, can_execute and
\* reset_circuit_breaker take effect and answer as in one sequential order;
\* get_status returns the session states and the limiter state of one
\* moment of that order within the call; and no interleaving of the calls
\* ends with tasks waiting for each other
MgrSerialized ==
    /\ MgrMemoryIsSequential
    /\ \A t \in MgrTasks : mgr.last[t].ok
    /\ MgrNoDeadlock

\* a get_status returned a consistent status although it saw the session
\* map locked by a writer and other calls took effect while it waited, and
\* a process_event waits for the limiter with the session map locked
MgrStatusUnderContention ==
    /\ \E t \in MgrTasks :
          /\ mgr.last[t].op = "get_status"
          /\ mgr.last[t].ok
          /\ mgr.last[t].seen >= 2
    /\ \E t \in MgrTasks :
          /\ mgr.pc[t] = "pe_limiter"
          /\ mgr.sessions_lock.w = t
          /\ mgr.limiter_lock.w \notin {"none", t}

----------------------------------------------------------------------------
(* Detail view *)

\* a refresh whose list still has the session of the open view keeps the
\* selection on it, wherever the list puts it
DetailFollowsReorder ==
    [][(/\ app.show_detail_view /\ app'.show_detail_view
        /\ SelectedSession(app) = view.opened
        /\ \E i \in 1..Len(app'.sessions) : Some(app'.sessions[i]) = view.opened)
       => SelectedSession(app') = view.opened]_vars

\* C38: while the detail view is open the events in it are those of the
\* session it was opened for, whatever refresh_data did to the session list
\* before refresh_events ran
DetailShowsOpenedSession ==
    app.show_detail_view => view.events_of = view.opened

----------------------------------------------------------------------------
(* Bridge stop *)

\* the loop ends only with running false, and takes at most one connection
\* after stop returned
AcceptLoopEndsAtCheck ==
    /\ acc.pc = "done" => ~acc.running
    /\ acc.after_stop <= 1

\* C39: once stop has returned no connection is accepted, and the accept
\* loop is not left waiting in accept for a client that may never come: it
\* has ended or is about to test running
BridgeStopIsFinal ==
    acc.stopped =>
        /\ acc.after_stop = 0
        /\ acc.pending = 0 => acc.pc # "accept"

----------------------------------------------------------------------------
(* Pagination parameters *)

\* with page and per_page of at least 1 the handler answers with an
\* envelope that repeats them and holds at most per_page items
PagedFromOne ==
    (IsSome(lastOp) /\ Get(lastOp).request.page >= 1
                    /\ Get(lastOp).request.per_page >= 1)
        => /\ ~Get(lastOp).response.panic
           /\ LET data == Get(Get(Get(lastOp).response.body).data)
              IN  /\ data.page = Get(lastOp).request.page
                  /\ data.per_page = Get(lastOp).request.per_page
                  /\ Len(data.items) <= data.per_page

\* C40: for every page >= 0 and per_page >= 0 the handler computes
\* total_pages and the start without underflow, overflow or division by
\* zero and answers with a pagination envelope
PaginationTotal ==
    IsSome(lastOp) =>
        /\ ~Get(lastOp).response.panic
        /\ IsSome(Get(lastOp).response.body)
        /\ Get(Get(lastOp).response.body).success

====
